---- MODULE Spec2Model ----
(***************************************************************************)
(* A model of the profile analysis core of pprof-analyzer-mcp:             *)
(*   - AnalyzeBlockProfile / AnalyzeMutexProfile (the two functions are    *)
(*     line-for-line the same algorithm, they differ in their messages),   *)
(*   - CompareProfiles with its helpers.                                   *)
(* One behaviour of the model is one call.  The profile is read the way    *)
(* the code reads it: the sample-type list once, then one sample per loop  *)
(* iteration; the samples a behaviour has read are the profile (or the     *)
(* prefix of it the call got to see before it ended).                      *)
(* Floating point percentages are kept as exact fractions n/d together     *)
(* with the IEEE class of the result (number, NaN, +Inf, -Inf).            *)
(***************************************************************************)
EXTENDS Integers, Sequences, FiniteSets, TLC

\* ------------------------------------------------------------------ bounds
MaxSamples == 2      \* samples per profile
MaxValue   == 1      \* sample values range over 0..MaxValue
MaxTopN    == 2      \* topN ranges over -1..MaxTopN

\* ------------------------------------------------------------- input sets
NilFunction == "<nil>"       \* a profile.Line whose Function pointer is nil
NoSample    == [Location |-> <<>>, Value |-> <<>>, none |-> TRUE]

ST(t, u) == [Type |-> t, Unit |-> u]

\* p.SampleType of the profiles handed in
SampleTypeLists ==
    { << ST("contentions", "count"), ST("delay", "nanoseconds") >>,
      << ST("delay", "nanoseconds"), ST("contentions", "count") >>,
      << ST("contentions", "count") >>,
      << ST("cpu", "nanoseconds") >>,
      << ST("samples", "count"), ST("cpu", "nanoseconds") >>,
      << ST("samples", "nanoseconds"), ST("cpu", "nanoseconds") >>,
      << ST("inuse_objects", "count"), ST("inuse_space", "bytes") >>,
      << >> }

\* s.Location: a sequence of locations, each the sequence of its lines, each
\* line the name of its function or NilFunction
Stacks ==
    { << >>,
      << <<NilFunction>> >>,
      << <<"f">>, <<"g">> >>,
      << <<NilFunction, "g">> >> }

Values == 0..MaxValue

ValueVectors == { <<1>> } \cup { <<a, b>> : a \in Values, b \in Values }

Samples == [Location : Stacks, Value : ValueVectors, none : {FALSE}]

Formats == {"json", "markdown", "text", "", "flamegraph-json"}
ProfileTypes == {"cpu", "heap", "allocs", "mutex", "block", "goroutine"}
TopNs   == -1..MaxTopN

\* -------------------------------------------------------------- variables
VARIABLES
    op,               \* the function called: "block", "mutex", "compare"
                      \* or "series"
    sampleType,       \* p.SampleType (baseline.SampleType), until it is read
    profileTypeName,  \* argument of CompareProfiles, until it is read
    pc,               \* position in the function
    which,            \* the profile a sample loop ranges over
    n,                \* samples of that profile read so far
    s,                \* the loop variable: the sample being processed
    contentionIndex, delayIndex,
    blockData,        \* map functionName -> stat (contentionData in mutex)
    totalContentions, totalDelay,
    stats,            \* the ranked list
    valueIndex,
    baselineFuncs, targetFuncs,   \* map functionName -> int64
    diffs, summary,
    profiles, labels, \* arguments of AnalyzeHeapTimeSeries
    series,           \* []TimeSeriesPoint
    typeDataMap,      \* map typeName -> []int64
    trends,           \* []ObjectTrend
    seriesSummary,    \* TimeSeriesSummary
    runningPprofs,    \* the PIDs that are keys of the map runningPprofs
    pprofMutex,       \* the holder of pprofMutex, "" when it is free
    process,          \* PID -> state of the pprof process
    tempFile,         \* call -> the temporary file of the call exists
    signalled,        \* PID -> the signals sent to the process, in order
    calls,            \* call -> the state of the tool call
    sigs,             \* number of signals in the channel sigs
    arrived,          \* termination signals delivered to the server so far
    handler,          \* the goroutine of setupSignalHandler
    worker,           \* PID -> position of the terminating goroutine
    result            \* what the call returned

vars == << op, sampleType, profileTypeName, pc, which, n, s, contentionIndex, delayIndex, blockData,
           totalContentions, totalDelay, stats, valueIndex, baselineFuncs,
           targetFuncs, diffs, summary, profiles, labels, series,
           typeDataMap, trends, seriesSummary, runningPprofs, pprofMutex,
           process, tempFile, signalled, calls, sigs, arrived, handler,
           worker, result >>

blockVars == << contentionIndex, delayIndex, blockData, totalContentions,
                totalDelay, stats >>
diffVars  == << valueIndex, baselineFuncs, targetFuncs, diffs, summary >>
seriesVars == << profiles, labels, series, typeDataMap, trends, seriesSummary >>
sessionVars == << runningPprofs, pprofMutex, process, tempFile, signalled,
                 calls, sigs, arrived, handler, worker >>

EmptyMap == [x \in {} |-> 0]

\* ------------------------------------------------- interactive sessions
MaxCalls   == 3      \* tool calls of a run
MaxSignals == 1      \* termination signals delivered to the server

CallIds == 1..MaxCalls
Pids    == 1..MaxCalls      \* a started process gets the next free PID

NoCall == [kind |-> "none", pc |-> "idle", pid |-> 0, ret |-> ""]

\* main before a tool call: the registry is empty, the mutex free, the
\* goroutine of setupSignalHandler waits on the channel
SessionStart ==
    /\ runningPprofs = {}
    /\ pprofMutex = ""
    /\ process = [p \in Pids |-> "unstarted"]
    /\ tempFile = [c \in CallIds |-> FALSE]
    /\ signalled = [p \in Pids |-> << >>]
    /\ calls = [c \in CallIds |-> NoCall]
    /\ sigs = 0
    /\ arrived = 0
    /\ handler = [pc |-> "receive", snapshot |-> {}, finished |-> FALSE]
    /\ worker = [p \in Pids |-> "idle"]

\* ----------------------------------------------------------------- floats
NaN    == [cls |-> "nan",  n |-> 0, d |-> 1]
PosInf == [cls |-> "+inf", n |-> 0, d |-> 1]
NegInf == [cls |-> "-inf", n |-> 0, d |-> 1]
Zero   == [cls |-> "num",  n |-> 0, d |-> 1]
Num(a, b) == [cls |-> "num", n |-> a, d |-> b]      \* a/b, b > 0

Abs(x) == IF x < 0 THEN -x ELSE x

\* float64(a) / float64(b) * 100
Pct(a, b) ==
    IF b = 0
    THEN IF a = 0 THEN NaN ELSE IF a > 0 THEN PosInf ELSE NegInf
    ELSE IF b > 0 THEN Num(a * 100, b) ELSE Num(-(a * 100), -b)

\* x > y on floats; any comparison with NaN is false
FloatGt(x, y) ==
    CASE x.cls = "nan" \/ y.cls = "nan" -> FALSE
      [] x.cls = "+inf" -> y.cls # "+inf"
      [] x.cls = "-inf" -> FALSE
      [] y.cls = "+inf" -> FALSE
      [] y.cls = "-inf" -> TRUE
      [] OTHER -> x.n * y.d > y.n * x.d

\* math.Abs
FloatAbs(x) ==
    CASE x.cls = "-inf" -> PosInf
      [] x.cls = "num"  -> Num(Abs(x.n), x.d)
      [] OTHER -> x

\* -------------------------------------------------------------- sort.Slice
\* sort.Slice on a slice of at most 12 elements is an insertion sort: element
\* i moves left while less(it, its left neighbour).  less[x][y] is the less
\* function on the elements at positions x and y of the unsorted slice; the
\* sort is carried out on the positions.
InsertPos(less, p, x) ==
    CHOOSE j \in 0..Len(p) :
        /\ \A m \in (j + 1)..Len(p) : less[x][p[m]]
        /\ (j = 0 \/ ~less[x][p[j]])

SortedPositions(less, len) ==
    LET sorted[i \in 0..len] ==
            IF i = 0 THEN << >>
            ELSE LET p == sorted[i - 1]
                     j == InsertPos(less, p, i)
                 IN  SubSeq(p, 1, j) \o << i >> \o SubSeq(p, j + 1, Len(p))
    IN  sorted[len]

InsertionSort(less, seq) ==
    LET pos == SortedPositions(less, Len(seq))
    IN  [i \in 1..Len(seq) |-> seq[pos[i]]]

\* the orders in which a range over a Go map may visit its keys
Orders(S) == { o \in [1..Cardinality(S) -> S] :
                 \A i, j \in 1..Cardinality(S) : i # j => o[i] # o[j] }

\* ------------------------------------------------------- shared extraction
Max(a, b) == IF a > b THEN a ELSE b

\* the first line of loc that has a function, 0 if none
FirstFunctionLine(loc) ==
    IF \E k \in 1..Len(loc) : loc[k] # NilFunction
    THEN CHOOSE k \in 1..Len(loc) :
            /\ loc[k] # NilFunction
            /\ \A m \in 1..(k - 1) : loc[m] = NilFunction
    ELSE 0

\* block/mutex: functionName starts "", is replaced by "unknown" when empty
BlockFunctionName(smp) ==
    LET loc  == smp.Location[1]
        k    == FirstFunctionLine(loc)
        name == IF k = 0 THEN "" ELSE loc[k]
    IN  IF name = "" THEN "unknown" ELSE name

\* IndexOfType with the index starting at 0 instead of -1
IndexOfTypeFromZero(st, type) ==
    IF \E i \in 1..Len(st) : st[i].Type = type
    THEN (CHOOSE i \in 1..Len(st) :
            /\ st[i].Type = type
            /\ \A m \in (i + 1)..Len(st) : st[m].Type # type) - 1
    ELSE 0

\* the index the loop over p.SampleType leaves behind: the last match, -1
IndexOfType(st, type) ==
    IF \E i \in 1..Len(st) : st[i].Type = type
    THEN (CHOOSE i \in 1..Len(st) :
            /\ st[i].Type = type
            /\ \A m \in (i + 1)..Len(st) : st[m].Type # type) - 1
    ELSE -1

\* ------------------------------------------------------------------- Init
NoSummary == [none |-> TRUE]

NoResult == [kind |-> "none", err |-> "", format |-> "", topN |-> 0,
             rows |-> << >>, summary |-> NoSummary]

Init ==
    /\ op \in {"block", "mutex", "compare"}
    /\ sampleType \in SampleTypeLists
    /\ profileTypeName \in (IF op = "compare" THEN ProfileTypes ELSE {""})
    /\ pc = "call"
    /\ which = ""
    /\ n = 0
    /\ s = NoSample
    /\ contentionIndex = -1
    /\ delayIndex = -1
    /\ blockData = EmptyMap
    /\ totalContentions = 0
    /\ totalDelay = 0
    /\ stats = << >>
    /\ valueIndex = 0
    /\ baselineFuncs = EmptyMap
    /\ targetFuncs = EmptyMap
    /\ diffs = << >>
    /\ summary = NoSummary
    /\ profiles = << >>
    /\ labels = << >>
    /\ series = << >>
    /\ typeDataMap = EmptyMap
    /\ trends = << >>
    /\ seriesSummary = NoSummary
    /\ SessionStart
    /\ result = NoResult

\* ------------------------------------------- AnalyzeBlock/MutexProfile
IsAnalyze == op \in {"block", "mutex"}

\* Go's int64 division truncates toward zero
GoDiv(a, b) == IF (a >= 0) = (b > 0) THEN Abs(a) \div Abs(b)
               ELSE -(Abs(a) \div Abs(b))

\* the condition of the `continue` at the head of the sample loop
SkipsSample(smp, ci, di) ==
    Len(smp.Location) = 0 \/ Len(smp.Value) <= Max(ci, di)

\* the struct literal of the else branch; the average is set here only
NewStat(name, contentions, delay) ==
    [FunctionName   |-> name,
     Contentions    |-> contentions,
     DelayNanos     |-> delay,
     ContentionsPct |-> Zero,
     DelayPct       |-> Zero,
     AvgDelayNanos  |-> GoDiv(delay, contentions)]

\* Accumulate with the delay of a later sample of a group left out
AccumulateDropsDelay(data, name, contentions, delay) ==
    IF name \in DOMAIN data
    THEN [data EXCEPT ![name].Contentions = @ + contentions]
    ELSE [x \in DOMAIN data \cup {name} |->
            IF x = name THEN NewStat(name, contentions, delay) ELSE data[x]]

\* "if stat, exists := blockData[functionName]; exists {...} else {...}"
Accumulate(data, name, contentions, delay) ==
    IF name \in DOMAIN data
    THEN [data EXCEPT ![name].Contentions = @ + contentions,
                      ![name].DelayNanos  = @ + delay]
    ELSE [x \in DOMAIN data \cup {name} |->
            IF x = name THEN NewStat(name, contentions, delay) ELSE data[x]]

\* the percentage assignments of the loop over the map
WithPercentages(stat, totalC, totalD) ==
    [stat EXCEPT !.ContentionsPct = Pct(stat.Contentions, totalC),
                 !.DelayPct       = Pct(stat.DelayNanos, totalD)]

\* DelayLess with the comparison turned around
DelayLessAscending(a, b) == a.DelayNanos < b.DelayNanos

\* the less function handed to sort.Slice
DelayLess(a, b) == a.DelayNanos > b.DelayNanos

\* RowLimit that ignores topN
RowLimitAll(topN, len) == len

\* "limit := topN; if limit > len(stats) { limit = len(stats) }"
RowLimit(topN, len) == IF topN > len THEN len ELSE topN

\* the rows written by "for i := 0; i < limit; i++"
RenderedRows(list, topN) ==
    LET limit == RowLimit(topN, Len(list))
    IN  IF limit <= 0 THEN << >> ELSE SubSeq(list, 1, limit)

\* encoding/json refuses NaN and the infinities
Marshalable(list) ==
    \A i \in 1..Len(list) :
        list[i].ContentionsPct.cls = "num" /\ list[i].DelayPct.cls = "num"

MissingSampleTypes == "missing sample types (contentions, delay)"

Failure(kind, msg) == [NoResult EXCEPT !.kind = kind, !.err = msg]

\* lines 43-57: find the two columns, fail if one is missing
ResolveIndexes ==
    /\ pc = "call" /\ IsAnalyze
    /\ LET ci == IndexOfType(sampleType, "contentions")
           di == IndexOfType(sampleType, "delay")
       IN  /\ contentionIndex' = ci
           /\ delayIndex' = di
           /\ IF ci = -1 \/ di = -1
              THEN /\ result' = Failure("error", MissingSampleTypes)
                   /\ pc' = "done"
                   /\ which' = which
              ELSE /\ result' = result
                   /\ pc' = "loop"
                   /\ which' = "profile"
    /\ sampleType' = << >>
    /\ UNCHANGED << op, profileTypeName, n, s, blockData, totalContentions,
                    totalDelay, stats >>
    /\ UNCHANGED diffVars
    /\ UNCHANGED seriesVars
    /\ UNCHANGED sessionVars

\* "for _, s := range p.Sample": the next sample of the profile
NextSample ==
    /\ pc = "loop"
    /\ n < MaxSamples
    /\ \E smp \in Samples : s' = smp
    /\ n' = n + 1
    /\ pc' = "body"
    /\ UNCHANGED << op, sampleType, profileTypeName, which, result >>
    /\ UNCHANGED blockVars
    /\ UNCHANGED diffVars
    /\ UNCHANGED seriesVars
    /\ UNCHANGED sessionVars

\* line 67-69: the sample is skipped
SkipSample ==
    /\ pc = "body" /\ IsAnalyze
    /\ SkipsSample(s, contentionIndex, delayIndex)
    /\ pc' = "loop"
    /\ s' = NoSample
    /\ UNCHANGED << op, sampleType, profileTypeName, which, n, result >>
    /\ UNCHANGED blockVars
    /\ UNCHANGED diffVars
    /\ UNCHANGED seriesVars
    /\ UNCHANGED sessionVars

\* lines 71-102: the sample is added to its function group and to the totals;
\* the division of line 97 panics when the divisor is 0
AggregateSample ==
    /\ pc = "body" /\ IsAnalyze
    /\ ~SkipsSample(s, contentionIndex, delayIndex)
    /\ LET contentions  == s.Value[contentionIndex + 1]
           delay        == s.Value[delayIndex + 1]
           functionName == BlockFunctionName(s)
       IN  IF functionName \notin DOMAIN blockData /\ contentions = 0
           THEN /\ result' = Failure("panic", "integer divide by zero")
                /\ pc' = "done"
                /\ UNCHANGED << s, blockData, totalContentions, totalDelay >>
           ELSE /\ blockData' = Accumulate(blockData, functionName, contentions, delay)
                /\ totalContentions' = totalContentions + contentions
                /\ totalDelay' = totalDelay + delay
                /\ pc' = "loop"
                /\ s' = NoSample
                /\ result' = result
    /\ UNCHANGED << op, sampleType, profileTypeName, which, n,
                    contentionIndex, delayIndex, stats >>
    /\ UNCHANGED diffVars
    /\ UNCHANGED seriesVars
    /\ UNCHANGED sessionVars

\* the range loop is exhausted; lines 105-107: nothing found
EndOfSamples ==
    /\ pc = "loop" /\ IsAnalyze
    /\ IF totalContentions = 0
       THEN /\ result' = [NoResult EXCEPT !.kind = "message"]
            /\ pc' = "done"
       ELSE /\ result' = result
            /\ pc' = "rank"
    /\ UNCHANGED << op, sampleType, profileTypeName, which, n, s >>
    /\ UNCHANGED blockVars
    /\ UNCHANGED diffVars
    /\ UNCHANGED seriesVars
    /\ UNCHANGED sessionVars

\* lines 110-123: collect the map in its iteration order, fill in the
\* percentages, sort by delay
RankStats ==
    /\ pc = "rank" /\ IsAnalyze
    /\ \E order \in Orders(DOMAIN blockData) :
         LET list == [i \in 1..Len(order) |->
                         WithPercentages(blockData[order[i]],
                                         totalContentions, totalDelay)]
             less == [i \in 1..Len(list) |-> [j \in 1..Len(list) |->
                         DelayLess(list[i], list[j])]]
         IN  stats' = InsertionSort(less, list)
    /\ pc' = "format"
    /\ UNCHANGED << op, sampleType, profileTypeName, which, n, s,
                    contentionIndex, delayIndex, blockData,
                    totalContentions, totalDelay, result >>
    /\ UNCHANGED diffVars
    /\ UNCHANGED seriesVars
    /\ UNCHANGED sessionVars

\* lines 126-209: the report in the requested format
FormatReport ==
    /\ pc = "format" /\ IsAnalyze
    /\ \E topN \in TopNs, format \in Formats :
         result' =
            IF format = "json"
            THEN IF Marshalable(stats)
                 THEN [kind |-> "json", err |-> "", format |-> format,
                       topN |-> topN, rows |-> stats, summary |-> NoSummary]
                 ELSE Failure("error", "failed to marshal JSON")
            ELSE [kind |-> IF format = "markdown" THEN "markdown" ELSE "text",
                  err |-> "", format |-> format, topN |-> topN,
                  rows |-> RenderedRows(stats, topN), summary |-> NoSummary]
    /\ pc' = "done"
    /\ UNCHANGED << op, sampleType, profileTypeName, which, n, s >>
    /\ UNCHANGED blockVars
    /\ UNCHANGED diffVars
    /\ UNCHANGED seriesVars
    /\ UNCHANGED sessionVars

\* ------------------------------------------------------- CompareProfiles
\* does column st match the profile type (the switch of getValueIndex)
MatchesProfileType(st, profileType) ==
    CASE profileType = "cpu" ->
            st.Type = "cpu" \/ (st.Type = "samples" /\ st.Unit = "nanoseconds")
      [] profileType \in {"heap", "allocs"} ->
            st.Type = "inuse_space" \/ st.Type = "alloc_space"
      [] profileType \in {"mutex", "block"} ->
            st.Type = "delay"
      [] OTHER -> FALSE

\* getValueIndex whose fallback is always the first column
getValueIndexFirstColumn(st, profileType) ==
    IF \E i \in 1..Len(st) : MatchesProfileType(st[i], profileType)
    THEN (CHOOSE i \in 1..Len(st) :
            /\ MatchesProfileType(st[i], profileType)
            /\ \A m \in 1..(i - 1) : ~MatchesProfileType(st[m], profileType)) - 1
    ELSE 0

\* the first matching column, else the second column, else the first
getValueIndex(st, profileType) ==
    IF \E i \in 1..Len(st) : MatchesProfileType(st[i], profileType)
    THEN (CHOOSE i \in 1..Len(st) :
            /\ MatchesProfileType(st[i], profileType)
            /\ \A m \in 1..(i - 1) : ~MatchesProfileType(st[m], profileType)) - 1
    ELSE IF Len(st) > 1 THEN 1 ELSE 0

\* the condition of the `continue` in aggregateFunctionValues
SkipsValue(smp, idx) == Len(smp.Location) = 0 \/ Len(smp.Value) <= idx

\* aggregateFunctionValues: functionName starts as "unknown"
DiffFunctionName(smp) ==
    LET loc == smp.Location[1]
        k   == FirstFunctionLine(loc)
    IN  IF k = 0 THEN "unknown" ELSE loc[k]

\* m[k] of a Go map: the zero value for a missing key
MapGet(m, k) == IF k \in DOMAIN m THEN m[k] ELSE 0

\* "result[functionName] += value"
MapAdd(m, k, v) ==
    [x \in DOMAIN m \cup {k} |-> IF x = k THEN MapGet(m, k) + v ELSE m[x]]

\* "for _, v := range m { total += v }"
RECURSIVE SumOver(_, _)
SumOver(m, keys) ==
    IF keys = {} THEN 0
    ELSE LET k == CHOOSE x \in keys : TRUE
         IN  m[k] + SumOver(m, keys \ {k})

MapSum(m) == SumOver(m, DOMAIN m)

\* DiffPercent without the branch for added functions
DiffPercentNoAdded(baselineVal, targetVal) ==
    IF baselineVal > 0 THEN Pct(targetVal - baselineVal, baselineVal)
    ELSE Zero

\* the percentage of computeFunctionDiffs; diffPercent starts as 0
DiffPercent(baselineVal, targetVal) ==
    IF baselineVal > 0 THEN Pct(targetVal - baselineVal, baselineVal)
    ELSE IF targetVal > 0 THEN Num(100, 1)
    ELSE Zero

\* FunctionDiffOf with the magnitude of the difference as DiffValue
FunctionDiffOfMagnitude(name, bFuncs, tFuncs) ==
    LET baselineVal == MapGet(bFuncs, name)
        targetVal   == MapGet(tFuncs, name)
    IN  [FunctionName   |-> name,
         BaselineValue  |-> baselineVal,
         TargetValue    |-> targetVal,
         DiffValue      |-> Abs(targetVal - baselineVal),
         DiffPercentage |-> DiffPercent(baselineVal, targetVal)]

\* the FunctionDiff appended for one name
FunctionDiffOf(name, bFuncs, tFuncs) ==
    LET baselineVal == MapGet(bFuncs, name)
        targetVal   == MapGet(tFuncs, name)
    IN  [FunctionName   |-> name,
         BaselineValue  |-> baselineVal,
         TargetValue    |-> targetVal,
         DiffValue      |-> targetVal - baselineVal,
         DiffPercentage |-> DiffPercent(baselineVal, targetVal)]

\* computeFunctionDiffs, the range over allFuncs visiting the names in `order`
computeFunctionDiffs(bFuncs, tFuncs, order) ==
    [i \in 1..Len(order) |-> FunctionDiffOf(order[i], bFuncs, tFuncs)]

\* AbsPercentLess without math.Abs
SignedPercentLess(a, b) == FloatGt(a.DiffPercentage, b.DiffPercentage)

\* the less function handed to sort.Slice in CompareProfiles
AbsPercentLess(a, b) ==
    FloatGt(FloatAbs(a.DiffPercentage), FloatAbs(b.DiffPercentage))

\* DiffClass with the sign of the difference tested first
DiffClassBySign(diff) ==
    IF diff.DiffValue < 0 THEN "improved"
    ELSE IF diff.DiffValue > 0 THEN "regressed"
    ELSE IF diff.BaselineValue = 0 /\ diff.TargetValue > 0 THEN "added"
    ELSE IF diff.TargetValue = 0 /\ diff.BaselineValue > 0 THEN "removed"
    ELSE "unchanged"

\* the if / else-if chain of computeDiffSummary
DiffClass(diff) ==
    IF diff.BaselineValue = 0 /\ diff.TargetValue > 0 THEN "added"
    ELSE IF diff.TargetValue = 0 /\ diff.BaselineValue > 0 THEN "removed"
    ELSE IF diff.DiffValue < 0 THEN "improved"
    ELSE IF diff.DiffValue > 0 THEN "regressed"
    ELSE "unchanged"

CountClass(list, class) ==
    Cardinality({ i \in 1..Len(list) : DiffClass(list[i]) = class })

computeDiffSummary(bFuncs, tFuncs, list) ==
    LET baselineTotal == MapSum(bFuncs)
        targetTotal   == MapSum(tFuncs)
        totalDiff     == targetTotal - baselineTotal
    IN  [BaselineTotal    |-> baselineTotal,
         TargetTotal      |-> targetTotal,
         TotalDiff        |-> totalDiff,
         TotalDiffPercent |-> IF baselineTotal > 0
                              THEN Pct(totalDiff, baselineTotal) ELSE Zero,
         ImprovedFuncs    |-> CountClass(list, "improved"),
         RegressedFuncs   |-> CountClass(list, "regressed"),
         AddedFuncs       |-> CountClass(list, "added"),
         RemovedFuncs     |-> CountClass(list, "removed")]

\* formatDiffReport: "limit := topN; if limit > len(diffs) { limit = len(diffs) }"
DiffRowLimit(topN, len) == IF topN > len THEN len ELSE topN

\* Indicator with the text indicators for the format "text" only
IndicatorTextOnly(diff, format) ==
    IF format # "text"
    THEN IF diff.DiffValue > 0 THEN "red"
         ELSE IF diff.BaselineValue = 0 /\ diff.TargetValue > 0 THEN "new"
         ELSE IF diff.TargetValue = 0 /\ diff.BaselineValue > 0 THEN "removed"
         ELSE "green"
    ELSE IF diff.DiffValue > 0 THEN "up"
         ELSE IF diff.DiffValue < 0 THEN "down"
         ELSE ""

\* the indicator of a row of the markdown and of the text table
Indicator(diff, format) ==
    IF format = "markdown"
    THEN IF diff.DiffValue > 0 THEN "red"
         ELSE IF diff.BaselineValue = 0 /\ diff.TargetValue > 0 THEN "new"
         ELSE IF diff.TargetValue = 0 /\ diff.BaselineValue > 0 THEN "removed"
         ELSE "green"
    ELSE IF diff.DiffValue > 0 THEN "up"
         ELSE IF diff.DiffValue < 0 THEN "down"
         ELSE ""

DiffRow(diff, format) ==
    [FunctionName   |-> diff.FunctionName,
     BaselineValue  |-> diff.BaselineValue,
     TargetValue    |-> diff.TargetValue,
     DiffValue      |-> diff.DiffValue,
     DiffPercentage |-> diff.DiffPercentage,
     indicator      |-> Indicator(diff, format)]

\* the rows written by the loop of formatDiffReport
DiffRows(list, topN, format) ==
    LET limit == DiffRowLimit(topN, Len(list))
    IN  IF limit <= 0 THEN << >>
        ELSE [i \in 1..limit |-> DiffRow(list[i], format)]

\* lines 54-57: the value column, looked up in the baseline
GetValueIndex ==
    /\ pc = "call" /\ op = "compare"
    /\ valueIndex' = getValueIndex(sampleType, profileTypeName)
    /\ sampleType' = << >>
    /\ profileTypeName' = ""
    /\ pc' = "loop"
    /\ which' = "baseline"
    /\ UNCHANGED << op, n, s, baselineFuncs, targetFuncs, diffs, summary, result >>
    /\ UNCHANGED blockVars
    /\ UNCHANGED seriesVars
    /\ UNCHANGED sessionVars

\* aggregateFunctionValues, lines 126-128: the sample is skipped
SkipValue ==
    /\ pc = "body" /\ op = "compare"
    /\ SkipsValue(s, valueIndex)
    /\ pc' = "loop"
    /\ s' = NoSample
    /\ UNCHANGED << op, sampleType, profileTypeName, which, n, result >>
    /\ UNCHANGED blockVars
    /\ UNCHANGED diffVars
    /\ UNCHANGED seriesVars
    /\ UNCHANGED sessionVars

\* aggregateFunctionValues, lines 130-142: the value is added to its function
AggregateValue ==
    /\ pc = "body" /\ op = "compare"
    /\ ~SkipsValue(s, valueIndex)
    /\ LET value        == s.Value[valueIndex + 1]
           functionName == DiffFunctionName(s)
       IN  IF which = "baseline"
           THEN /\ baselineFuncs' = MapAdd(baselineFuncs, functionName, value)
                /\ targetFuncs' = targetFuncs
           ELSE /\ targetFuncs' = MapAdd(targetFuncs, functionName, value)
                /\ baselineFuncs' = baselineFuncs
    /\ pc' = "loop"
    /\ s' = NoSample
    /\ UNCHANGED << op, sampleType, profileTypeName, which, n, valueIndex,
                    diffs, summary, result >>
    /\ UNCHANGED blockVars
    /\ UNCHANGED seriesVars
    /\ UNCHANGED sessionVars

\* the sample loop of the baseline is exhausted: on to the target (line 61)
EndOfBaseline ==
    /\ pc = "loop" /\ op = "compare" /\ which = "baseline"
    /\ which' = "target"
    /\ n' = 0
    /\ UNCHANGED << op, sampleType, profileTypeName, pc, s, result >>
    /\ UNCHANGED blockVars
    /\ UNCHANGED diffVars
    /\ UNCHANGED seriesVars
    /\ UNCHANGED sessionVars

\* lines 64-72, after the target's loop: the entries in the iteration order
\* of allFuncs, the sort by absolute percentage, the summary
ComputeDiffs ==
    /\ pc = "loop" /\ op = "compare" /\ which = "target"
    /\ \E order \in Orders(DOMAIN baselineFuncs \cup DOMAIN targetFuncs) :
         LET list   == computeFunctionDiffs(baselineFuncs, targetFuncs, order)
             less   == [i \in 1..Len(list) |-> [j \in 1..Len(list) |->
                           AbsPercentLess(list[i], list[j])]]
             sorted == InsertionSort(less, list)
         IN  /\ diffs' = sorted
             /\ summary' = computeDiffSummary(baselineFuncs, targetFuncs, sorted)
    /\ pc' = "format"
    /\ UNCHANGED << op, sampleType, profileTypeName, which, n, s, valueIndex,
                    baselineFuncs, targetFuncs, result >>
    /\ UNCHANGED blockVars
    /\ UNCHANGED seriesVars
    /\ UNCHANGED sessionVars

\* lines 75-92: the JSON document or the text/markdown report
FormatDiff ==
    /\ pc = "format" /\ op = "compare"
    /\ \E topN \in TopNs, format \in Formats :
         result' =
            IF format = "json"
            THEN [kind |-> "json", err |-> "", format |-> format,
                  topN |-> topN, rows |-> diffs, summary |-> summary]
            ELSE [kind |-> IF format = "markdown" THEN "markdown" ELSE "text",
                  err |-> "", format |-> format, topN |-> topN,
                  rows |-> DiffRows(diffs, topN, format), summary |-> summary]
    /\ pc' = "done"
    /\ UNCHANGED << op, sampleType, profileTypeName, which, n, s >>
    /\ UNCHANGED blockVars
    /\ UNCHANGED diffVars
    /\ UNCHANGED seriesVars
    /\ UNCHANGED sessionVars

Next ==
    \/ ResolveIndexes
    \/ NextSample
    \/ SkipSample
    \/ AggregateSample
    \/ EndOfSamples
    \/ RankStats
    \/ FormatReport
    \/ GetValueIndex
    \/ SkipValue
    \/ AggregateValue
    \/ EndOfBaseline
    \/ ComputeDiffs
    \/ FormatDiff

Spec == Init /\ [][Next]_vars

\* ================================================ AnalyzeHeapTimeSeries
MaxProfiles == 3     \* profiles per call range over 0..MaxProfiles

MinProfiles    == 3  \* "if len(profiles) < 3"
TrendThreshold == 10 \* "growthPercent > 10", "growthPercent < -10"
maxTrends      == 10 \* "maxTrends := 10"
BytesPerMB     == 1024 * 1024

InuseColumns == << ST("inuse_objects", "count"), ST("inuse_space", "bytes") >>
SpaceColumn  == << ST("inuse_space", "bytes") >>
AllocColumns == << ST("alloc_objects", "count"), ST("alloc_space", "bytes") >>
TwoSpaceColumns == << ST("inuse_space", "bytes"), ST("inuse_space", "bytes") >>

HeapSample(loc, val) == [Location |-> loc, Value |-> val]
HeapProfile(st, samples) == [SampleType |-> st, Sample |-> samples]

StackF     == << <<"f">> >>
StackDeepG == << <<NilFunction>>, <<"g">> >>    \* the name is in the caller
StackNil   == << <<NilFunction>> >>

\* the heap profiles a call may be handed
HeapProfiles ==
    { HeapProfile(InuseColumns, << >>),
      HeapProfile(InuseColumns, << HeapSample(StackF, <<1, 9>>) >>),
      HeapProfile(InuseColumns, << HeapSample(StackF, <<1, 10>>) >>),
      HeapProfile(InuseColumns, << HeapSample(StackF, <<1, 11>>) >>),
      HeapProfile(InuseColumns, << HeapSample(StackF, <<1, 12>>) >>),
      HeapProfile(InuseColumns, << HeapSample(StackF, <<1, 10>>),
                                   HeapSample(StackDeepG, <<1, 12>>) >>),
      HeapProfile(InuseColumns, << HeapSample(StackF, <<1, 10>>),
                                   HeapSample(<< >>, <<1, 2>>) >>),
      HeapProfile(InuseColumns, << HeapSample(StackF, <<1>>),
                                   HeapSample(StackF, <<1, 5>>),
                                   HeapSample(StackF, <<1, 5>>) >>),
      HeapProfile(InuseColumns, << HeapSample(StackF, <<1, 0>>),
                                   HeapSample(StackNil, <<1, 10>>) >>),
      HeapProfile(SpaceColumn,  << HeapSample(StackF, <<12>>) >>),
      HeapProfile(TwoSpaceColumns, << HeapSample(StackF, <<10, 11>>) >>),
      HeapProfile(AllocColumns, << HeapSample(StackF, <<1, 10>>) >>) }

ProfileLists == UNION { [1..k -> HeapProfiles] : k \in 0..MaxProfiles }
LabelLists(np) == { [i \in 1..m |-> i] : m \in {np - 1, np, np + 1} \cap Nat }

\* the checks of lines 55-61 with the label count checked first
argumentErrorLabelsFirst(np, nl) ==
    IF nl # np THEN "label count does not match profile count"
    ELSE IF np < MinProfiles THEN "at least 3 profiles are needed"
    ELSE ""

\* the error of lines 55-61, "" when both checks pass
argumentError(np, nl) ==
    IF np < MinProfiles THEN "at least 3 profiles are needed"
    ELSE IF nl # np THEN "label count does not match profile count"
    ELSE ""

\* the index the loop with `break` leaves behind: the first match, -1
IndexOfFirstType(st, type) ==
    IF \E i \in 1..Len(st) : st[i].Type = type
    THEN (CHOOSE i \in 1..Len(st) :
            /\ st[i].Type = type
            /\ \A m \in 1..(i - 1) : st[m].Type # type) - 1
    ELSE -1

\* SumColumn passing over the samples that have no location
SumColumnWithStack(samples, index) ==
    LET total[k \in 0..Len(samples)] ==
            IF k = 0 THEN 0
            ELSE IF /\ index >= 0 /\ Len(samples[k].Value) > index
                    /\ Len(samples[k].Location) > 0
                 THEN total[k - 1] + samples[k].Value[index + 1]
                 ELSE total[k - 1]
    IN  total[Len(samples)]

\* "if index >= 0 && len(sample.Value) > index { total += sample.Value[index] }"
SumColumn(samples, index) ==
    LET total[k \in 0..Len(samples)] ==
            IF k = 0 THEN 0
            ELSE IF index >= 0 /\ Len(samples[k].Value) > index
                 THEN total[k - 1] + samples[k].Value[index + 1]
                 ELSE total[k - 1]
    IN  total[Len(samples)]

\* time.Now() is replaced by the offset in minutes that is added to it
extractTimeSeriesData(profs, labs) ==
    [i \in 1..Len(profs) |->
        [Minute       |-> i - 1,
         Label        |-> labs[i],
         TotalBytes   |-> SumColumn(profs[i].Sample,
                              IndexOfType(profs[i].SampleType, "inuse_space")),
         TotalObjects |-> SumColumn(profs[i].Sample,
                              IndexOfType(profs[i].SampleType, "inuse_objects"))]]

\* the name of the first line with a function over all locations in order
getObjectTypeFromSample(sample) ==
    IF \E l \in 1..Len(sample.Location) : FirstFunctionLine(sample.Location[l]) # 0
    THEN LET l == CHOOSE x \in 1..Len(sample.Location) :
                     /\ FirstFunctionLine(sample.Location[x]) # 0
                     /\ \A m \in 1..(x - 1) :
                            FirstFunctionLine(sample.Location[m]) = 0
         IN  sample.Location[l][FirstFunctionLine(sample.Location[l])]
    ELSE "unknown"

\* typeValuesOf with "=" in place of "+="
typeValuesOverwriting(samples, index) ==
    LET typeValues[k \in 0..Len(samples)] ==
            IF k = 0 THEN EmptyMap
            ELSE IF Len(samples[k].Value) <= index
                 THEN typeValues[k - 1]
                 ELSE LET name == getObjectTypeFromSample(samples[k])
                      IN  [x \in DOMAIN typeValues[k - 1] \cup {name} |->
                              IF x = name THEN samples[k].Value[index + 1]
                              ELSE typeValues[k - 1][x]]
    IN  typeValues[Len(samples)]

\* lines 157-169: the values of one profile summed by object type
typeValuesOf(samples, index) ==
    LET typeValues[k \in 0..Len(samples)] ==
            IF k = 0 THEN EmptyMap
            ELSE IF Len(samples[k].Value) <= index
                 THEN typeValues[k - 1]
                 ELSE MapAdd(typeValues[k - 1],
                             getObjectTypeFromSample(samples[k]),
                             samples[k].Value[index + 1])
    IN  typeValues[Len(samples)]

\* lines 140-178: typeDataMap after the loop over the profiles
typeDataMapOf(profs) ==
    LET zeros == [j \in 1..Len(profs) |-> 0]
        data[i \in 0..Len(profs)] ==
            IF i = 0 THEN EmptyMap
            ELSE LET index == IndexOfFirstType(profs[i].SampleType, "inuse_space")
                     tv    == typeValuesOf(profs[i].Sample, index)
                     old   == data[i - 1]
                 IN  IF index = -1 THEN old
                     ELSE [t \in DOMAIN old \cup DOMAIN tv |->
                            LET values == IF t \in DOMAIN old THEN old[t] ELSE zeros
                            IN  IF t \in DOMAIN tv
                                THEN [values EXCEPT ![i] = tv[t]]
                                ELSE values]
    IN  data[Len(profs)]

\* TrendDirectionOf with both thresholds inclusive
TrendDirectionInclusive(growthPercent) ==
    IF ~FloatGt(Num(TrendThreshold, 1), growthPercent) THEN "increasing"
    ELSE IF ~FloatGt(growthPercent, Num(-TrendThreshold, 1)) THEN "decreasing"
    ELSE "stable"

\* lines 202-207
TrendDirectionOf(growthPercent) ==
    IF FloatGt(growthPercent, Num(TrendThreshold, 1)) THEN "increasing"
    ELSE IF FloatGt(Num(-TrendThreshold, 1), growthPercent) THEN "decreasing"
    ELSE "stable"

\* lines 183-217: the ObjectTrend of one type; FormattedValues is Values
\* under FormatBytes and is left out
TrendOf(typeName, values) ==
    LET firstVal      == values[1]
        lastVal       == values[Len(values)]
        growthBytes   == lastVal - firstVal
        growthPercent == IF firstVal > 0 THEN Pct(growthBytes, firstVal) ELSE Zero
        timePoints    == Len(values)
    IN  [TypeName       |-> typeName,
         Values         |-> values,
         GrowthBytes    |-> growthBytes,
         GrowthPercent  |-> growthPercent,
         GrowthRate     |-> Num(growthBytes, timePoints * BytesPerMB),
         TrendDirection |-> TrendDirectionOf(growthPercent)]

\* GrowthLess with the comparison turned round
GrowthLessAscending(a, b) == FloatGt(b.GrowthPercent, a.GrowthPercent)

\* the less function handed to sort.Slice in analyzeObjectTrends
GrowthLess(a, b) == FloatGt(a.GrowthPercent, b.GrowthPercent)

\* lines 181-225 for one iteration order of typeDataMap
sortedTrends(data, order) ==
    LET list == [i \in 1..Len(order) |-> TrendOf(order[i], data[order[i]])]
        less == [i \in 1..Len(list) |-> [j \in 1..Len(list) |->
                    GrowthLess(list[i], list[j])]]
    IN  InsertionSort(less, list)

CountDirections(list, directions) ==
    Cardinality({ i \in 1..Len(list) : list[i].TrendDirection \in directions })

\* computeTimeSeriesSummary with the number of points as the time span
computeTimeSeriesSummaryOverPoints(points, list) ==
    IF Len(points) < 2
    THEN [DataPoints |-> Len(points), TimeSpanMinutes |-> 0, TotalGrowth |-> 0,
          AvgGrowthRate |-> Zero, GrowingObjects |-> 0, StableObjects |-> 0]
    ELSE LET timeSpanMinutes == Len(points)
             totalGrowth == points[Len(points)].TotalBytes - points[1].TotalBytes
         IN  [DataPoints      |-> Len(points),
              TimeSpanMinutes |-> timeSpanMinutes,
              TotalGrowth     |-> totalGrowth,
              AvgGrowthRate   |-> Num(totalGrowth, timeSpanMinutes * BytesPerMB),
              GrowingObjects  |-> CountDirections(list, {"increasing"}),
              StableObjects   |-> CountDirections(list, {"stable", "decreasing"})]

\* lines 243-278
computeTimeSeriesSummary(points, list) ==
    IF Len(points) < 2
    THEN [DataPoints |-> Len(points), TimeSpanMinutes |-> 0, TotalGrowth |-> 0,
          AvgGrowthRate |-> Zero, GrowingObjects |-> 0, StableObjects |-> 0]
    ELSE LET timeSpanMinutes == Len(points) - 1
             totalGrowth == points[Len(points)].TotalBytes - points[1].TotalBytes
         IN  [DataPoints      |-> Len(points),
              TimeSpanMinutes |-> timeSpanMinutes,
              TotalGrowth     |-> totalGrowth,
              AvgGrowthRate   |-> Num(totalGrowth, timeSpanMinutes * BytesPerMB),
              GrowingObjects  |-> CountDirections(list, {"increasing"}),
              StableObjects   |-> CountDirections(list, {"stable", "decreasing"})]

\* trendRowLimit without the cap
trendRowLimitAll(len) == len

\* "maxTrends := 10; if maxTrends > len(trends) { maxTrends = len(trends) }"
trendRowLimit(len) == IF maxTrends > len THEN len ELSE maxTrends

\* the arguments of one row of the trend table
TrendRow(trend) ==
    [TypeName       |-> trend.TypeName,
     First          |-> trend.Values[1],
     Last           |-> trend.Values[Len(trend.Values)],
     GrowthBytes    |-> trend.GrowthBytes,
     GrowthPercent  |-> trend.GrowthPercent,
     TrendDirection |-> trend.TrendDirection,
     indicator      |-> IF trend.TrendDirection = "decreasing" THEN "falling"
                        ELSE IF trend.TrendDirection = "stable" THEN "level"
                        ELSE "rising"]

TrendRows(list) == [i \in 1..trendRowLimit(Len(list)) |-> TrendRow(list[i])]

\* lines 76-91: the string returned for a format
seriesReport(points, list, sum, format) ==
    IF format = "json"
    THEN [kind |-> "json", err |-> "", format |-> format, topN |-> 0,
          rows |-> list, summary |-> sum, series |-> points]
    ELSE [kind |-> IF format = "markdown" THEN "markdown" ELSE "text",
          err |-> "", format |-> format, topN |-> 0,
          rows |-> TrendRows(list), summary |-> sum, series |-> points]

\* lines 55-61
CheckArguments ==
    /\ pc = "call" /\ op = "series"
    /\ LET err == argumentError(Len(profiles), Len(labels))
       IN  IF err # ""
           THEN /\ result' = Failure("error", err)
                /\ pc' = "done"
           ELSE /\ pc' = "extract"
                /\ UNCHANGED result
    /\ UNCHANGED << op, sampleType, profileTypeName, which, n, s >>
    /\ UNCHANGED blockVars
    /\ UNCHANGED diffVars
    /\ UNCHANGED seriesVars
    /\ UNCHANGED sessionVars

\* line 64
ExtractTimeSeriesData ==
    /\ pc = "extract" /\ op = "series"
    /\ series' = extractTimeSeriesData(profiles, labels)
    /\ pc' = "aggregate"
    /\ UNCHANGED << op, sampleType, profileTypeName, which, n, s, result >>
    /\ UNCHANGED blockVars
    /\ UNCHANGED diffVars
    /\ UNCHANGED << profiles, labels, typeDataMap, trends, seriesSummary >>
    /\ UNCHANGED sessionVars

\* line 67, first loop of analyzeObjectTrends
AggregateTypes ==
    /\ pc = "aggregate" /\ op = "series"
    /\ typeDataMap' = typeDataMapOf(profiles)
    /\ pc' = "trends"
    /\ UNCHANGED << op, sampleType, profileTypeName, which, n, s, result >>
    /\ UNCHANGED blockVars
    /\ UNCHANGED diffVars
    /\ UNCHANGED << profiles, labels, series, trends, seriesSummary >>
    /\ UNCHANGED sessionVars

\* second loop of analyzeObjectTrends and the sort
BuildTrends ==
    /\ pc = "trends" /\ op = "series"
    /\ \E order \in Orders(DOMAIN typeDataMap) :
         trends' = sortedTrends(typeDataMap, order)
    /\ pc' = "format"
    /\ UNCHANGED << op, sampleType, profileTypeName, which, n, s, result >>
    /\ UNCHANGED blockVars
    /\ UNCHANGED diffVars
    /\ UNCHANGED << profiles, labels, series, typeDataMap, seriesSummary >>
    /\ UNCHANGED sessionVars

\* lines 73-91
FormatSeries ==
    /\ pc = "format" /\ op = "series"
    /\ \E format \in Formats :
         LET sum == computeTimeSeriesSummary(series, trends)
         IN  /\ seriesSummary' = sum
             /\ result' = seriesReport(series, trends, sum, format)
    /\ pc' = "done"
    /\ UNCHANGED << op, sampleType, profileTypeName, which, n, s >>
    /\ UNCHANGED blockVars
    /\ UNCHANGED diffVars
    /\ UNCHANGED << profiles, labels, series, typeDataMap, trends >>
    /\ UNCHANGED sessionVars

SeriesInit ==
    /\ op = "series"
    /\ profiles \in ProfileLists
    /\ labels \in LabelLists(Len(profiles))
    /\ pc = "call"
    /\ sampleType = << >>
    /\ profileTypeName = ""
    /\ which = ""
    /\ n = 0
    /\ s = NoSample
    /\ contentionIndex = -1
    /\ delayIndex = -1
    /\ blockData = EmptyMap
    /\ totalContentions = 0
    /\ totalDelay = 0
    /\ stats = << >>
    /\ valueIndex = 0
    /\ baselineFuncs = EmptyMap
    /\ targetFuncs = EmptyMap
    /\ diffs = << >>
    /\ summary = NoSummary
    /\ series = << >>
    /\ typeDataMap = EmptyMap
    /\ trends = << >>
    /\ seriesSummary = NoSummary
    /\ SessionStart
    /\ result = NoResult

SeriesNext ==
    \/ CheckArguments
    \/ ExtractTimeSeriesData
    \/ AggregateTypes
    \/ BuildTrends
    \/ FormatSeries

SpecSeries == SeriesInit /\ [][SeriesNext]_vars

\* ------------------------------------------- the report of many trends
MaxTypes == 11       \* object types of a report range over 0..MaxTypes

TypeName(k) == "t" \o ToString(k)

\* profile i of np profiles with m object types; type k holds 20 bytes in
\* the first profiles and 20 + k * slope bytes in the last one
WideProfile(i, np, m, slope) ==
    HeapProfile(InuseColumns,
        [k \in 1..m |-> HeapSample(<< << TypeName(k) >> >>,
                          <<1, IF i = np THEN 20 + k * slope ELSE 20>>)])

\* formatTimeSeriesReport is applied to the series and the sorted trends
\* of MinProfiles profiles with up to MaxTypes object types
SeriesReportInit ==
    /\ op = "series"
    /\ \E m \in 0..MaxTypes, slope \in -1..2 :
         profiles = [i \in 1..MinProfiles |-> WideProfile(i, MinProfiles, m, slope)]
    /\ labels = [i \in 1..Len(profiles) |-> i]
    /\ series = extractTimeSeriesData(profiles, labels)
    /\ typeDataMap = typeDataMapOf(profiles)
    /\ trends = sortedTrends(typeDataMap,
                    [k \in 1..Cardinality(DOMAIN typeDataMap) |-> TypeName(k)])
    /\ pc = "format"
    /\ sampleType = << >>
    /\ profileTypeName = ""
    /\ which = ""
    /\ n = 0
    /\ s = NoSample
    /\ contentionIndex = -1
    /\ delayIndex = -1
    /\ blockData = EmptyMap
    /\ totalContentions = 0
    /\ totalDelay = 0
    /\ stats = << >>
    /\ valueIndex = 0
    /\ baselineFuncs = EmptyMap
    /\ targetFuncs = EmptyMap
    /\ diffs = << >>
    /\ summary = NoSummary
    /\ seriesSummary = NoSummary
    /\ SessionStart
    /\ result = NoResult

SeriesReportNext == FormatSeries

SpecSeriesReport == SeriesReportInit /\ [][SeriesReportNext]_vars

\* ------------------------------------------------ the four functions
AllInit == Init \/ SeriesInit

AllNext == Next \/ SeriesNext

SpecAll == AllInit /\ [][AllNext]_vars

\* ============================================== interactive pprof sessions
analysisVars == << op, sampleType, profileTypeName, pc, which, n, s, result >>
otherVars == << analysisVars, blockVars, diffVars, seriesVars >>

ProfileURIs == {"", "local", "remote"}

Sent(kind, c, sig, ok) == [by |-> kind, call |-> c, sig |-> sig, ok |-> ok]

\* Lock() goes through whoever holds the mutex
MutexIgnored(m) == TRUE

\* Lock() blocks while the mutex is held
MutexFree(m) == m = ""

\* the next unused call id
NextCall(c) == calls[c].kind = "none" /\ \A d \in 1..(c - 1) : calls[d].kind # "none"

\* cmd.Process.Pid: the operating system hands out a PID that is not in use
NewPid == CHOOSE p \in Pids : process[p] = "unstarted" /\
                              \A q \in 1..(p - 1) : process[q] # "unstarted"

Returned(call, ret) == [call EXCEPT !.pc = "returned", !.ret = ret]

\* getProfileAsFile downloads a remote profile into a temporary file
DownloadsTempFile(uri) == uri = "remote"

\* handleOpenInteractivePprof, lines 309-349: the argument check,
\* getProfileAsFile, LookPath and cmd.Start; cleanup() runs on the failures
\* of the last two only
OpenStart(c) ==
    /\ NextCall(c)
    /\ \E uri \in ProfileURIs,
          outcome \in {"failed to get profile file", "no go command",
                       "start failed", "started"} :
         LET call == [NoCall EXCEPT !.kind = "open"]
         IN  IF uri = ""
             THEN /\ calls' = [calls EXCEPT ![c] = Returned(call, "missing profile_uri")]
                  /\ UNCHANGED << process, tempFile >>
             ELSE IF outcome = "started"
             THEN /\ calls' = [calls EXCEPT ![c] =
                                  [call EXCEPT !.pc = "lock", !.pid = NewPid]]
                  /\ process' = [process EXCEPT ![NewPid] = "running"]
                  /\ tempFile' = [tempFile EXCEPT ![c] = DownloadsTempFile(uri)]
             ELSE /\ calls' = [calls EXCEPT ![c] = Returned(call, outcome)]
                  /\ UNCHANGED << process, tempFile >>
    /\ UNCHANGED << runningPprofs, pprofMutex, signalled, sigs, arrived,
                    handler, worker >>
    /\ UNCHANGED otherVars

\* line 350
OpenLock(c) ==
    /\ calls[c].kind = "open" /\ calls[c].pc = "lock"
    /\ MutexFree(pprofMutex)
    /\ pprofMutex' = "open"
    /\ calls' = [calls EXCEPT ![c].pc = "register"]
    /\ UNCHANGED << runningPprofs, process, tempFile, signalled, sigs,
                    arrived, handler, worker >>
    /\ UNCHANGED otherVars

\* lines 351-370: the entry, Unlock, the reply
OpenRegister(c) ==
    /\ calls[c].kind = "open" /\ calls[c].pc = "register"
    /\ runningPprofs' = runningPprofs \cup {calls[c].pid}
    /\ pprofMutex' = ""
    /\ calls' = [calls EXCEPT ![c] = Returned(calls[c], "ok")]
    /\ UNCHANGED << process, tempFile, signalled, sigs, arrived,
                    handler, worker >>
    /\ UNCHANGED otherVars

\* the PIDs a caller asks for: 0, the PIDs handed out so far, and the next
RequestedPids ==
    {0} \cup { p \in Pids : p = 1 \/ process[p - 1] # "unstarted" }

\* handleDisconnectPprofSession, lines 381-386
DisconnectCheck(c) ==
    /\ NextCall(c)
    /\ \E pid \in RequestedPids :
         LET call == [NoCall EXCEPT !.kind = "disconnect", !.pid = pid]
         IN  calls' = [calls EXCEPT ![c] =
                         IF pid <= 0 THEN Returned(call, "invalid PID")
                         ELSE [call EXCEPT !.pc = "lock"]]
    /\ UNCHANGED << runningPprofs, pprofMutex, process, tempFile, signalled,
                    sigs, arrived, handler, worker >>
    /\ UNCHANGED otherVars

\* line 388
DisconnectLock(c) ==
    /\ calls[c].kind = "disconnect" /\ calls[c].pc = "lock"
    /\ MutexFree(pprofMutex)
    /\ pprofMutex' = "disconnect"
    /\ calls' = [calls EXCEPT ![c].pc = "lookup"]
    /\ UNCHANGED << runningPprofs, process, tempFile, signalled, sigs,
                    arrived, handler, worker >>
    /\ UNCHANGED otherVars

\* lines 389-394: the lookup and, for a PID that is not there, Unlock and
\* the error
DisconnectLookup(c) ==
    /\ calls[c].kind = "disconnect" /\ calls[c].pc = "lookup"
    /\ IF calls[c].pid \in runningPprofs
       THEN /\ calls' = [calls EXCEPT ![c].pc = "delete"]
            /\ UNCHANGED pprofMutex
       ELSE /\ calls' = [calls EXCEPT ![c] = Returned(calls[c], "not found")]
            /\ pprofMutex' = ""
    /\ UNCHANGED << runningPprofs, process, tempFile, signalled,
                    sigs, arrived, handler, worker >>
    /\ UNCHANGED otherVars

\* delete that leaves the entry in the map
KeepEntry(registry, pid) == registry

\* "delete(runningPprofs, pid)"
DeleteEntry(registry, pid) == registry \ {pid}

\* lines 395-396
DisconnectDelete(c) ==
    /\ calls[c].kind = "disconnect" /\ calls[c].pc = "delete"
    /\ runningPprofs' = DeleteEntry(runningPprofs, calls[c].pid)
    /\ pprofMutex' = ""
    /\ calls' = [calls EXCEPT ![c].pc = "interrupt"]
    /\ UNCHANGED << process, tempFile, signalled, sigs, arrived,
                    handler, worker >>
    /\ UNCHANGED otherVars

\* AfterInterrupt going on to Kill whatever Interrupt returned
AfterInterruptAlwaysKill(ok) == "kill"

\* "if err != nil { ... err = process.Signal(os.Kill)"
AfterInterrupt(ok) == IF ok THEN "return" ELSE "kill"

\* a signal that was sent ends the process
AfterSignal(state, ok) == IF ok THEN "exited" ELSE state

\* lines 399-401, and 409-424 when the signal was sent
DisconnectInterrupt(c) ==
    /\ calls[c].kind = "disconnect" /\ calls[c].pc = "interrupt"
    /\ \E ok \in BOOLEAN :
         LET pid == calls[c].pid
         IN  /\ signalled' = [signalled EXCEPT ![pid] =
                    Append(@, Sent("disconnect", c, "Interrupt", ok))]
             /\ process' = [process EXCEPT ![pid] = AfterSignal(@, ok)]
             /\ calls' = [calls EXCEPT ![c] =
                    IF AfterInterrupt(ok) = "kill"
                    THEN [calls[c] EXCEPT !.pc = "kill"]
                    ELSE Returned(calls[c], "ok")]
    /\ UNCHANGED << runningPprofs, pprofMutex, tempFile, sigs, arrived,
                    handler, worker >>
    /\ UNCHANGED otherVars

\* lines 402-406, and 409-424 when the signal was sent
DisconnectKill(c) ==
    /\ calls[c].kind = "disconnect" /\ calls[c].pc = "kill"
    /\ \E ok \in BOOLEAN :
         LET pid == calls[c].pid
         IN  /\ signalled' = [signalled EXCEPT ![pid] =
                    Append(@, Sent("disconnect", c, "Kill", ok))]
             /\ process' = [process EXCEPT ![pid] = AfterSignal(@, ok)]
             /\ calls' = [calls EXCEPT ![c] =
                    Returned(calls[c], IF ok THEN "ok" ELSE "failed to terminate")]
    /\ UNCHANGED << runningPprofs, pprofMutex, tempFile, sigs, arrived,
                    handler, worker >>
    /\ UNCHANGED otherVars

\* signal.Notify on a channel of capacity 1: a signal that finds the
\* channel full is dropped
SignalArrives ==
    /\ arrived < MaxSignals
    /\ arrived' = arrived + 1
    /\ sigs' = IF sigs < 1 THEN sigs + 1 ELSE sigs
    /\ UNCHANGED << runningPprofs, pprofMutex, process, tempFile, signalled,
                    calls, handler, worker >>
    /\ UNCHANGED otherVars

\* "sig := <-sigs"
HandlerReceive ==
    /\ handler.pc = "receive" /\ sigs > 0
    /\ sigs' = sigs - 1
    /\ handler' = [handler EXCEPT !.pc = "lock"]
    /\ UNCHANGED << runningPprofs, pprofMutex, process, tempFile, signalled,
                    calls, arrived, worker >>
    /\ UNCHANGED otherVars

HandlerLock ==
    /\ handler.pc = "lock"
    /\ MutexFree(pprofMutex)
    /\ pprofMutex' = "handler"
    /\ handler' = [handler EXCEPT !.pc = "snapshot"]
    /\ UNCHANGED << runningPprofs, process, tempFile, signalled, calls, sigs,
                    arrived, worker >>
    /\ UNCHANGED otherVars

\* the copy of the map into the two slices, the new empty map, Unlock, the
\* return on an empty snapshot and the start of the goroutines
HandlerSnapshot ==
    /\ handler.pc = "snapshot"
    /\ runningPprofs' = {}
    /\ pprofMutex' = ""
    /\ IF runningPprofs = {}
       THEN /\ handler' = [handler EXCEPT !.pc = "done"]
            /\ UNCHANGED worker
       ELSE /\ handler' = [handler EXCEPT !.snapshot = runningPprofs,
                                          !.pc = "wait"]
            /\ worker' = [p \in Pids |-> IF p \in runningPprofs
                                         THEN "interrupt" ELSE worker[p]]
    /\ UNCHANGED << process, tempFile, signalled, calls, sigs, arrived >>
    /\ UNCHANGED otherVars

WorkerInterrupt(p) ==
    /\ worker[p] = "interrupt"
    /\ \E ok \in BOOLEAN :
         /\ signalled' = [signalled EXCEPT ![p] =
                Append(@, Sent("cleanup", 0, "Interrupt", ok))]
         /\ process' = [process EXCEPT ![p] = AfterSignal(@, ok)]
         /\ worker' = [worker EXCEPT ![p] = IF ok THEN "done" ELSE "kill"]
    /\ UNCHANGED << runningPprofs, pprofMutex, tempFile, calls, sigs, arrived,
                    handler >>
    /\ UNCHANGED otherVars

WorkerKill(p) ==
    /\ worker[p] = "kill"
    /\ \E ok \in BOOLEAN :
         /\ signalled' = [signalled EXCEPT ![p] =
                Append(@, Sent("cleanup", 0, "Kill", ok))]
         /\ process' = [process EXCEPT ![p] = AfterSignal(@, ok)]
         /\ worker' = [worker EXCEPT ![p] = "done"]
    /\ UNCHANGED << runningPprofs, pprofMutex, tempFile, calls, sigs, arrived,
                    handler >>
    /\ UNCHANGED otherVars

\* wg.Wait() that does not wait
AttemptsNotAwaited(w, snapshot) == TRUE

\* wg.Wait(): every goroutine has called wg.Done()
AttemptsDone(w, snapshot) == \A p \in snapshot : w[p] = "done"

\* "Cleanup finished."
HandlerFinish ==
    /\ handler.pc = "wait"
    /\ AttemptsDone(worker, handler.snapshot)
    /\ handler' = [handler EXCEPT !.pc = "done", !.finished = TRUE]
    /\ UNCHANGED << runningPprofs, pprofMutex, process, tempFile, signalled,
                    calls, sigs, arrived, worker >>
    /\ UNCHANGED otherVars

SessionInit ==
    /\ op = "session"
    /\ sampleType = << >>
    /\ profileTypeName = ""
    /\ pc = "serve"
    /\ which = ""
    /\ n = 0
    /\ s = NoSample
    /\ contentionIndex = -1
    /\ delayIndex = -1
    /\ blockData = EmptyMap
    /\ totalContentions = 0
    /\ totalDelay = 0
    /\ stats = << >>
    /\ valueIndex = 0
    /\ baselineFuncs = EmptyMap
    /\ targetFuncs = EmptyMap
    /\ diffs = << >>
    /\ summary = NoSummary
    /\ profiles = << >>
    /\ labels = << >>
    /\ series = << >>
    /\ typeDataMap = EmptyMap
    /\ trends = << >>
    /\ seriesSummary = NoSummary
    /\ SessionStart
    /\ result = NoResult

SessionNext ==
    \/ \E c \in CallIds : OpenStart(c)
    \/ \E c \in CallIds : OpenLock(c)
    \/ \E c \in CallIds : OpenRegister(c)
    \/ \E c \in CallIds : DisconnectCheck(c)
    \/ \E c \in CallIds : DisconnectLock(c)
    \/ \E c \in CallIds : DisconnectLookup(c)
    \/ \E c \in CallIds : DisconnectDelete(c)
    \/ \E c \in CallIds : DisconnectInterrupt(c)
    \/ \E c \in CallIds : DisconnectKill(c)
    \/ SignalArrives
    \/ HandlerReceive
    \/ HandlerLock
    \/ HandlerSnapshot
    \/ \E p \in Pids : WorkerInterrupt(p)
    \/ \E p \in Pids : WorkerKill(p)
    \/ HandlerFinish

SpecSession == SessionInit /\ [][SessionNext]_vars

\* ================================================================= claims
IsReport == result.kind \in {"json", "markdown", "text"}

Min(a, b) == IF a < b THEN a ELSE b

\* the sum of f[k] over the keys of f
RECURSIVE Total(_, _)
Total(f, keys) ==
    IF keys = {} THEN 0
    ELSE LET k == CHOOSE x \in keys : TRUE
         IN  f[k] + Total(f, keys \ {k})

GroupContentions == Total([k \in DOMAIN blockData |-> blockData[k].Contentions],
                          DOMAIN blockData)
GroupDelays      == Total([k \in DOMAIN blockData |-> blockData[k].DelayNanos],
                          DOMAIN blockData)
RankedContentions == Total([i \in 1..Len(stats) |-> stats[i].Contentions],
                           1..Len(stats))
RankedDelays      == Total([i \in 1..Len(stats) |-> stats[i].DelayNanos],
                           1..Len(stats))

\* the sample in s is one the loop passes over
StagedSampleIsSkipped ==
    /\ pc = "body" /\ IsAnalyze
    /\ (Len(s.Location) = 0 \/ Len(s.Value) <= Max(contentionIndex, delayIndex))

\* C1: in AnalyzeBlockProfile / AnalyzeMutexProfile the contentions of all
\* function groups add up to totalContentions and their delays to
\* totalDelay, at every point of the aggregation and in the ranked list; a
\* sample that is skipped changes neither a group nor a total.
C1_AggregationClosure ==
    /\ [](IsAnalyze =>
            /\ GroupContentions = totalContentions
            /\ GroupDelays = totalDelay
            /\ (pc \in {"format", "done"} /\ stats # << >> =>
                  /\ RankedContentions = totalContentions
                  /\ RankedDelays = totalDelay))
    /\ [][StagedSampleIsSkipped =>
            /\ blockData' = blockData
            /\ totalContentions' = totalContentions
            /\ totalDelay' = totalDelay]_vars

\* a group has been aggregated and the next sample is one to skip
C1_Witness ==
    /\ StagedSampleIsSkipped
    /\ Cardinality(DOMAIN blockData) = 1
    /\ totalContentions > 0
    /\ \E k \in DOMAIN blockData : blockData[k].DelayNanos > 0

\* C2: a sample with a call stack and contentions 0, in a profile whose
\* total contentions is not 0, does not make the analysis fail: no division
\* by zero is performed, and a group with contentions 0 has average delay 0.
C2_NoDivisionByZero ==
    (IsAnalyze /\ totalContentions > 0) =>
        /\ result.kind # "panic"
        /\ \A k \in DOMAIN blockData :
             blockData[k].Contentions = 0 => blockData[k].AvgDelayNanos = 0

\* C3: every function group of the ranked list has avgDelayNanos equal to
\* its delayNanos divided (integer division) by its contentions.
C3_AverageIsDelayOverContentions ==
    (IsAnalyze /\ pc \in {"format", "done"}) =>
        \A i \in 1..Len(stats) :
            stats[i].Contentions > 0 =>
                /\ stats[i].AvgDelayNanos * stats[i].Contentions <= stats[i].DelayNanos
                /\ stats[i].DelayNanos < (stats[i].AvgDelayNanos + 1) * stats[i].Contentions

\* the contentions of the samples read so far, the one in s included
ContentionsRead ==
    totalContentions +
    (IF pc = "done" /\ ~s.none /\ Len(s.Location) > 0
        /\ Len(s.Value) > Max(contentionIndex, delayIndex)
     THEN s.Value[contentionIndex + 1] ELSE 0)

\* C4: when both columns exist and the contentions of the profile's samples
\* add up to 0, the call returns the fixed "nothing found" message.
C4_ZeroTotalGivesMessage ==
    (IsAnalyze /\ pc = "done" /\ contentionIndex # -1 /\ delayIndex # -1
       /\ ContentionsRead = 0)
    => result.kind = "message"

HasColumn(list, type) == \E i \in 1..Len(list) : list[i].Type = type

\* C5: AnalyzeBlockProfile / AnalyzeMutexProfile return the missing-columns
\* error, before any sample is read, exactly when the profile has no column
\* named "contentions" or none named "delay"; with both columns the indexes
\* found are those of columns with these names.
C5_MissingColumnsFail ==
    [][(pc = "call" /\ IsAnalyze) =>
         IF HasColumn(sampleType, "contentions") /\ HasColumn(sampleType, "delay")
         THEN /\ result'.kind # "error"
              /\ pc' = "loop"
              /\ sampleType[contentionIndex' + 1].Type = "contentions"
              /\ sampleType[delayIndex' + 1].Type = "delay"
         ELSE /\ result'.kind = "error"
              /\ result'.err = MissingSampleTypes
              /\ result'.rows = << >>
              /\ pc' = "done"
              /\ n' = 0 /\ blockData' = EmptyMap]_vars

C5_Witness ==
    /\ IsAnalyze /\ pc = "done"
    /\ result.kind = "error" /\ result.err = MissingSampleTypes
    /\ n = 0

\* a float that is a number in [0, 100]
InPercentRange(x) == x.cls = "num" /\ 0 <= x.n /\ x.n <= 100 * x.d

\* C6: every entry of a report of AnalyzeBlockProfile / AnalyzeMutexProfile
\* has contentionsPct and delayPct defined and in [0,100].
C6_PercentagesInRange ==
    (IsAnalyze /\ IsReport) =>
        \A i \in 1..Len(result.rows) :
            /\ InPercentRange(result.rows[i].ContentionsPct)
            /\ InPercentRange(result.rows[i].DelayPct)

\* C7: in the ranked list and in the rows of every report of
\* AnalyzeBlockProfile / AnalyzeMutexProfile the delay never increases from
\* one entry to the next.
C7_RankedByDelay ==
    IsAnalyze =>
        /\ \A i, j \in 1..Len(stats) :
             i < j => stats[i].DelayNanos >= stats[j].DelayNanos
        /\ \A i, j \in 1..Len(result.rows) :
             i < j => result.rows[i].DelayNanos >= result.rows[j].DelayNanos

C7_Witness ==
    /\ IsAnalyze /\ pc = "done" /\ result.kind = "json"
    /\ Len(result.rows) = 2
    /\ result.rows[1].DelayNanos > result.rows[2].DelayNanos

\* the ranked list of the call and the number of its groups
Ranked == IF op = "compare" THEN diffs ELSE stats
Groups == IF op = "compare" THEN DOMAIN baselineFuncs \cup DOMAIN targetFuncs
          ELSE DOMAIN blockData

\* C8: for topN >= 0 a text or markdown report has exactly
\* min(topN, number of groups) rows and they are the first entries of the
\* ranked list; a JSON report has one entry for every group, whatever topN.
C8_TopNTruncation ==
    (pc = "done" /\ IsReport) =>
        IF result.kind = "json"
        THEN /\ Len(result.rows) = Cardinality(Groups)
             /\ { result.rows[i].FunctionName : i \in 1..Len(result.rows) } = Groups
             /\ result.rows = Ranked
        ELSE result.topN >= 0 =>
             /\ Len(result.rows) = Min(result.topN, Cardinality(Groups))
             /\ \A i \in 1..Len(result.rows) :
                  /\ result.rows[i].FunctionName = Ranked[i].FunctionName
                  /\ IF op = "compare"
                     THEN result.rows[i].DiffValue = Ranked[i].DiffValue
                     ELSE result.rows[i].DelayNanos = Ranked[i].DelayNanos

\* a text report of two groups cut to one row
C8_Witness ==
    /\ IsAnalyze /\ pc = "done" /\ result.kind \in {"text", "markdown"}
    /\ result.topN = 1
    /\ Cardinality(Groups) = 2
    /\ Len(result.rows) = 1

ValueIn(m, name) == IF name \in DOMAIN m THEN m[name] ELSE 0

\* C9: CompareProfiles has an entry for every function name of the baseline
\* or the target aggregation, with diffValue = target - baseline (a missing
\* side is 0) and diffPercentage = diffValue/baseline*100 if baseline > 0,
\* 100 if baseline is not > 0 and target > 0, and 0 otherwise.
C9_DiffValues ==
    (op = "compare" /\ pc \in {"format", "done"}) =>
        /\ { diffs[i].FunctionName : i \in 1..Len(diffs) } =
              DOMAIN baselineFuncs \cup DOMAIN targetFuncs
        /\ \A i \in 1..Len(diffs) :
             LET e == diffs[i]
                 b == ValueIn(baselineFuncs, e.FunctionName)
                 g == ValueIn(targetFuncs, e.FunctionName)
                 q == e.DiffPercentage
             IN  /\ e.BaselineValue = b
                 /\ e.TargetValue = g
                 /\ e.DiffValue = g - b
                 /\ q.cls = "num"
                 /\ IF b > 0 THEN q.n * b = (g - b) * 100 * q.d
                    ELSE IF g > 0 THEN q.n = 100 * q.d
                    ELSE q.n = 0

\* an added function next to one whose value changed
C9_Witness ==
    /\ op = "compare" /\ pc = "format"
    /\ \E i \in 1..Len(diffs) :
         diffs[i].BaselineValue = 0 /\ diffs[i].TargetValue > 0
    /\ \E i \in 1..Len(diffs) :
         diffs[i].BaselineValue > 0 /\ diffs[i].DiffValue < 0
           /\ diffs[i].TargetValue > 0

Entries == 1..Len(diffs)
IsAdded(e)   == e.BaselineValue = 0 /\ e.TargetValue > 0
IsRemoved(e) == e.TargetValue = 0 /\ e.BaselineValue > 0

\* C10: the summary counts the added, removed, improved (delta < 0, neither
\* added nor removed) and regressed (delta > 0, neither added nor removed)
\* entries of the whole entry list, no entry twice, and its totals are the
\* sums over all entries; the summary returned is the same for every topN.
C10_SummaryCounts ==
    (op = "compare" /\ pc \in {"format", "done"}) =>
        /\ summary.AddedFuncs = Cardinality({ i \in Entries : IsAdded(diffs[i]) })
        /\ summary.RemovedFuncs = Cardinality({ i \in Entries : IsRemoved(diffs[i]) })
        /\ summary.ImprovedFuncs =
              Cardinality({ i \in Entries : /\ diffs[i].DiffValue < 0
                                            /\ ~IsAdded(diffs[i])
                                            /\ ~IsRemoved(diffs[i]) })
        /\ summary.RegressedFuncs =
              Cardinality({ i \in Entries : /\ diffs[i].DiffValue > 0
                                            /\ ~IsAdded(diffs[i])
                                            /\ ~IsRemoved(diffs[i]) })
        /\ summary.AddedFuncs + summary.RemovedFuncs + summary.ImprovedFuncs
              + summary.RegressedFuncs <= Len(diffs)
        /\ summary.BaselineTotal =
              Total([i \in Entries |-> diffs[i].BaselineValue], Entries)
        /\ summary.TargetTotal =
              Total([i \in Entries |-> diffs[i].TargetValue], Entries)
        /\ summary.TotalDiff = summary.TargetTotal - summary.BaselineTotal
        /\ (pc = "done" => result.summary = summary)

\* one function regressed and one removed; the report shows one row
C10_Witness ==
    /\ op = "compare" /\ pc = "done"
    /\ result.kind = "text" /\ result.topN = 1 /\ Len(result.rows) = 1
    /\ summary.RegressedFuncs = 1
    /\ summary.RemovedFuncs = 1
    /\ summary.AddedFuncs = 0

\* the magnitude of a percentage that is a number, as a fraction of d
Magnitude(q) == IF q.n < 0 THEN -q.n ELSE q.n

\* |x| >= |y|
AbsAtLeast(x, y) == Magnitude(x) * y.d >= Magnitude(y) * x.d

ColumnOfKind(col, kind) ==
    \/ /\ kind = "cpu"
       /\ (col.Type = "cpu" \/ (col.Type = "samples" /\ col.Unit = "nanoseconds"))
    \/ /\ kind \in {"heap", "allocs"}
       /\ col.Type \in {"inuse_space", "alloc_space"}
    \/ /\ kind \in {"mutex", "block"}
       /\ col.Type = "delay"

\* C12: CompareProfiles takes as value index the first baseline column that
\* matches the profile kind, and when none matches 1 if the baseline has
\* more than one column and 0 otherwise, never failing; the index stays the
\* same for the target, and a sample of either profile whose value vector is
\* not longer than the index changes neither aggregation.
C12_ValueIndex ==
    /\ [][(pc = "call" /\ op = "compare") =>
            LET matches == { i \in 1..Len(sampleType) :
                               ColumnOfKind(sampleType[i], profileTypeName) }
            IN  /\ pc' = "loop"
                /\ result'.kind = "none"
                /\ IF matches # {}
                   THEN /\ valueIndex' + 1 \in matches
                        /\ \A i \in matches : valueIndex' + 1 <= i
                   ELSE valueIndex' = (IF Len(sampleType) > 1 THEN 1 ELSE 0)]_vars
    /\ [][(pc # "call" /\ op = "compare") => valueIndex' = valueIndex]_vars
    /\ [][(pc = "body" /\ op = "compare" /\ Len(s.Value) <= valueIndex) =>
            /\ baselineFuncs' = baselineFuncs
            /\ targetFuncs' = targetFuncs]_vars
    /\ [](op = "compare" => result.kind \notin {"error", "panic"})

\* index 1 is in use, the baseline has been aggregated, and the sample of
\* the target now read has a single value
C12_Witness ==
    /\ op = "compare" /\ pc = "body" /\ which = "target"
    /\ valueIndex = 1
    /\ baselineFuncs # EmptyMap
    /\ Len(s.Location) > 0 /\ Len(s.Value) = 1

\* the arguments pass both checks of the claim
ArgumentsAccepted == Len(profiles) >= 3 /\ Len(labels) = Len(profiles)

\* C13: AnalyzeHeapTimeSeries returns an error and no text, with no series
\* and no trend computed, exactly when fewer than 3 profiles are supplied or
\* the number of labels is not the number of profiles; when both hold the
\* error is the one about the number of profiles.
C13_ArgumentErrors ==
    (op = "series" /\ pc # "call") =>
        /\ (result.kind = "error") <=> ~ArgumentsAccepted
        /\ ~ArgumentsAccepted =>
             /\ pc = "done"
             /\ result.rows = << >>
             /\ series = << >> /\ typeDataMap = EmptyMap /\ trends = << >>
             /\ seriesSummary = NoSummary
        /\ Len(profiles) < 3 => result.err = "at least 3 profiles are needed"
        /\ (Len(profiles) >= 3 /\ Len(labels) # Len(profiles)) =>
             result.err = "label count does not match profile count"
        /\ (ArgumentsAccepted /\ pc = "done") => IsReport

\* a call with too few profiles and a different number of labels has failed
C13_Witness ==
    /\ op = "series" /\ pc = "done"
    /\ Len(profiles) < 3 /\ Len(labels) # Len(profiles)
    /\ result.kind = "error"

\* the columns of a profile that are named inuse_space
InuseSpaceColumns(prof) ==
    { c \in 1..Len(prof.SampleType) : prof.SampleType[c].Type = "inuse_space" }

\* the sum of the inuse_space values of the samples of prof of a type
InuseSpaceOf(prof, type) ==
    IF InuseSpaceColumns(prof) = {} THEN 0
    ELSE LET c == CHOOSE x \in InuseSpaceColumns(prof) :
                     \A y \in InuseSpaceColumns(prof) : x <= y
             counted == { k \in 1..Len(prof.Sample) :
                            /\ Len(prof.Sample[k].Value) >= c
                            /\ getObjectTypeFromSample(prof.Sample[k]) = type }
         IN  Total([k \in counted |-> prof.Sample[k].Value[c]], counted)

\* C14: the value sequence of every trend of AnalyzeHeapTimeSeries has one
\* position per profile; position i is the sum of the inuse_space values of
\* the samples of that type in profile i, and 0 when the type is not in
\* profile i or profile i has no inuse_space column, which is not an error.
C14_TrendValues ==
    (op = "series" /\ pc \in {"format", "done"} /\ ArgumentsAccepted) =>
        /\ \A t \in 1..Len(trends) :
             /\ Len(trends[t].Values) = Len(profiles)
             /\ \A i \in 1..Len(profiles) :
                  trends[t].Values[i] = InuseSpaceOf(profiles[i], trends[t].TypeName)
        /\ \A t \in DOMAIN typeDataMap : \E i \in 1..Len(trends) :
             trends[i].TypeName = t
        /\ result.kind # "error"

\* a trend with the sum of two samples at one position and 0 at the
\* position of a profile that has no inuse_space column
C14_Witness ==
    /\ op = "series" /\ pc = "done"
    /\ \E t \in 1..Len(trends), i, j \in 1..Len(profiles) :
         /\ InuseSpaceColumns(profiles[i]) = {}
         /\ trends[t].Values[i] = 0
         /\ Cardinality({ k \in 1..Len(profiles[j].Sample) :
                /\ Len(profiles[j].Sample[k].Value) > 1
                /\ getObjectTypeFromSample(profiles[j].Sample[k])
                     = trends[t].TypeName }) > 1
         /\ trends[t].Values[j] > 0

\* C15: for every trend growthBytes is the last value minus the first,
\* growthPercent is growthBytes / first * 100 when first > 0 and 0
\* otherwise, and the direction is "increasing" exactly when growthPercent
\* > 10, "decreasing" exactly when growthPercent < -10 and "stable"
\* otherwise, so that exactly +10% and exactly -10% are stable.
C15_GrowthAndDirection ==
    (op = "series" /\ pc \in {"format", "done"}) =>
        \A t \in 1..Len(trends) :
            LET tr    == trends[t]
                first == tr.Values[1]
                last  == tr.Values[Len(tr.Values)]
                pct   == tr.GrowthPercent
            IN  /\ tr.GrowthBytes = last - first
                /\ pct.cls = "num" /\ pct.d > 0
                /\ first > 0  => pct.n * first = tr.GrowthBytes * 100 * pct.d
                /\ first <= 0 => pct.n = 0
                /\ tr.TrendDirection \in {"increasing", "decreasing", "stable"}
                /\ (tr.TrendDirection = "increasing") <=> (pct.n > 10 * pct.d)
                /\ (tr.TrendDirection = "decreasing") <=> (pct.n < -10 * pct.d)

\* a trend at exactly +10% that is stable
C15_Witness ==
    /\ op = "series" /\ pc = "done" /\ IsReport
    /\ \E t \in 1..Len(trends) :
         /\ trends[t].GrowthPercent.n = 10 * trends[t].GrowthPercent.d
         /\ trends[t].TrendDirection = "stable"

\* x >= y for two percentages that are numbers
PercentAtLeast(x, y) == x.n * y.d >= y.n * x.d

\* C16: the trends of AnalyzeHeapTimeSeries are in the order of
\* non-increasing growthPercent, in the JSON report and in the rows of the
\* text and markdown reports.
C16_RankedByGrowthPercent ==
    (op = "series" /\ pc \in {"format", "done"}) =>
        /\ \A i, j \in 1..Len(trends) :
             i < j => PercentAtLeast(trends[i].GrowthPercent, trends[j].GrowthPercent)
        /\ \A i, j \in 1..Len(result.rows) :
             i < j => PercentAtLeast(result.rows[i].GrowthPercent,
                                     result.rows[j].GrowthPercent)

\* a text report whose rows go from a growth to a decrease
C16_Witness ==
    /\ op = "series" /\ pc = "done" /\ result.kind = "text"
    /\ Len(result.rows) >= 2
    /\ result.rows[1].GrowthPercent.n > 0
    /\ result.rows[Len(result.rows)].GrowthPercent.n < 0

\* C17: in the summary of AnalyzeHeapTimeSeries dataPoints is the number of
\* profiles, totalGrowth is the totalBytes of the last point minus that of
\* the first, the average growth rate is totalGrowth divided by the number
\* of points minus one (in MB), growingObjects counts the "increasing"
\* trends and stableObjects all the others, so the two add up to the number
\* of trends.
C17_Summary ==
    (op = "series" /\ pc = "done" /\ IsReport) =>
        LET sum == result.summary
            np  == Len(profiles)
        IN  /\ sum.DataPoints = np
            /\ sum.TotalGrowth = series[np].TotalBytes - series[1].TotalBytes
            /\ sum.AvgGrowthRate.cls = "num" /\ sum.AvgGrowthRate.d > 0
            /\ sum.AvgGrowthRate.n * (np - 1) * 1024 * 1024
                 = sum.TotalGrowth * sum.AvgGrowthRate.d
            /\ sum.GrowingObjects =
                 Cardinality({ t \in 1..Len(trends) :
                                 trends[t].TrendDirection = "increasing" })
            /\ sum.StableObjects =
                 Cardinality({ t \in 1..Len(trends) :
                                 trends[t].TrendDirection # "increasing" })
            /\ sum.GrowingObjects + sum.StableObjects = Len(trends)

\* a summary with a growth, one growing type and a decreasing type counted
\* as stable
C17_Witness ==
    /\ op = "series" /\ pc = "done" /\ IsReport
    /\ result.summary.TotalGrowth # 0
    /\ result.summary.GrowingObjects = 1
    /\ result.summary.StableObjects = 1
    /\ \E t \in 1..Len(trends) : trends[t].TrendDirection = "decreasing"

\* the lines of all locations of a stack, in order
RECURSIVE Frames(_)
Frames(locs) == IF locs = << >> THEN << >>
                ELSE Head(locs) \o Frames(Tail(locs))

\* the first function name in a list of lines, "unknown" if there is none
FirstName(lines) ==
    IF \E k \in 1..Len(lines) : lines[k] # NilFunction
    THEN lines[CHOOSE k \in 1..Len(lines) :
                  /\ lines[k] # NilFunction
                  /\ \A m \in 1..(k - 1) : lines[m] = NilFunction]
    ELSE "unknown"

\* the top-of-stack function of a sample, "unknown" without one
TopOfStackName(smp) ==
    IF Len(smp.Location) = 0 THEN "unknown" ELSE FirstName(smp.Location[1])

\* the samples of profile i that were summed
SummedSamples(i) ==
    IF InuseSpaceColumns(profiles[i]) = {} THEN {}
    ELSE LET c == CHOOSE x \in InuseSpaceColumns(profiles[i]) :
                     \A y \in InuseSpaceColumns(profiles[i]) : x <= y
         IN  { profiles[i].Sample[k] :
                 k \in { x \in 1..Len(profiles[i].Sample) :
                           Len(profiles[i].Sample[x].Value) >= c } }

\* C19: the object types of AnalyzeHeapTimeSeries are the top-of-stack
\* function names of the samples: the first function name found in the
\* first location of a sample, "unknown" when that location has none.
C19_TypeIsTopOfStack ==
    (op = "series" /\ pc \in {"trends", "format", "done"} /\ ArgumentsAccepted) =>
        DOMAIN typeDataMap =
            { TopOfStackName(smp) :
                smp \in UNION { SummedSamples(i) : i \in 1..Len(profiles) } }

\* C18: the text and the markdown report of AnalyzeHeapTimeSeries have
\* min(10, number of trends) trend rows, the first entries of the sorted
\* trends in their order, and one series row for every profile in the order
\* of the profiles; the JSON report has every trend.
C18_ReportRows ==
    (op = "series" /\ pc = "done" /\ IsReport) =>
        /\ result.kind \in {"text", "markdown"} =>
             /\ Len(result.rows) = Min(10, Len(trends))
             /\ \A i \in 1..Len(result.rows) :
                  /\ result.rows[i].TypeName = trends[i].TypeName
                  /\ result.rows[i].GrowthBytes = trends[i].GrowthBytes
                  /\ result.rows[i].GrowthPercent = trends[i].GrowthPercent
                  /\ result.rows[i].TrendDirection = trends[i].TrendDirection
        /\ Len(result.series) = Len(profiles)
        /\ \A i \in 1..Len(profiles) :
             /\ result.series[i].Label = labels[i]
             /\ result.series[i].Minute = i - 1
             /\ result.series[i].TotalBytes = series[i].TotalBytes
        /\ result.kind = "json" => result.rows = trends

\* a text report of more than 10 trends
C18_Witness ==
    /\ op = "series" /\ pc = "done" /\ result.kind = "text"
    /\ Len(trends) > 10
    /\ Len(result.rows) = 10
    /\ Len(result.series) = Len(profiles)

\* what the call at its formatting step returns for the format "text"
TextReport(topN, sum) ==
    IF IsAnalyze
    THEN [kind |-> "text", err |-> "", format |-> "text", topN |-> topN,
          rows |-> RenderedRows(stats, topN), summary |-> NoSummary]
    ELSE IF op = "compare"
    THEN [kind |-> "text", err |-> "", format |-> "text", topN |-> topN,
          rows |-> DiffRows(diffs, topN, "text"), summary |-> summary]
    ELSE seriesReport(series, trends, sum, "text")

\* C20: AnalyzeBlockProfile, AnalyzeMutexProfile, CompareProfiles and
\* AnalyzeHeapTimeSeries give for a format that is neither "json" nor
\* "markdown", "" and "flamegraph-json" included, what they give for "text";
\* the only error of the formatting step is the JSON one.
C20_UnknownFormatIsText ==
    [][(pc = "format" /\ pc' = "done") =>
          /\ result'.kind \in {"json", "markdown", "text", "error"}
          /\ result'.kind = "json" => result'.format = "json"
          /\ result'.kind = "markdown" => result'.format = "markdown"
          /\ result'.kind = "error" => result'.err = "failed to marshal JSON"
          /\ result'.kind = "text" =>
               /\ result'.format \in {"text", "", "flamegraph-json"}
               /\ result' = [TextReport(result'.topN, seriesSummary')
                                EXCEPT !.format = result'.format]]_vars

\* a comparison called with the default format of the handler has
\* returned the text report with rows
C20_Witness ==
    /\ op = "compare" /\ pc = "done"
    /\ result.format = "flamegraph-json"
    /\ result.kind = "text"
    /\ Len(result.rows) > 0

\* the ranked list for one iteration order of the map of the block analysis
RankedStatsFor(order) ==
    LET list == [i \in 1..Len(order) |->
                    WithPercentages(blockData[order[i]],
                                    totalContentions, totalDelay)]
        less == [i \in 1..Len(list) |-> [j \in 1..Len(list) |->
                    DelayLess(list[i], list[j])]]
    IN  InsertionSort(less, list)

\* the sorted entries for one iteration order of allFuncs
RankedDiffsFor(order) ==
    LET list == computeFunctionDiffs(baselineFuncs, targetFuncs, order)
        less == [i \in 1..Len(list) |-> [j \in 1..Len(list) |->
                    AbsPercentLess(list[i], list[j])]]
    IN  InsertionSort(less, list)

\* C21: the ranking of AnalyzeBlockProfile, AnalyzeMutexProfile and
\* CompareProfiles is determined by the input: the order of the entries is
\* the same whatever order the map is iterated in, ties on the sort key
\* included.
C21_RankingIsDeterministic ==
    /\ [][(pc = "rank" /\ IsAnalyze) =>
            \A order \in Orders(DOMAIN blockData) :
                stats' = RankedStatsFor(order)]_vars
    /\ [][(pc = "loop" /\ op = "compare" /\ pc' = "format") =>
            \A order \in Orders(DOMAIN baselineFuncs \cup DOMAIN targetFuncs) :
                diffs' = RankedDiffsFor(order)]_vars

\* C26: in the markdown report of CompareProfiles a row of an added
\* function has the new-function indicator, a row of a removed function the
\* removed indicator, and every other row the regressed indicator when its
\* difference is > 0 and the improved indicator otherwise.
C26_IndicatorsFollowLegend ==
    (op = "compare" /\ pc = "done" /\ result.kind = "markdown") =>
        \A i \in 1..Len(result.rows) :
            LET row == result.rows[i]
            IN  row.indicator =
                   IF IsAdded(row) THEN "new"
                   ELSE IF IsRemoved(row) THEN "removed"
                   ELSE IF row.DiffValue > 0 THEN "red"
                   ELSE "green"

\* the sum of a field over the entries of CompareProfiles
EntrySum(field) == Total([i \in Entries |-> diffs[i][field]], Entries)

\* C29: every function name of the baseline or the target aggregation of
\* CompareProfiles is in exactly one entry, and the sum of diffValue over
\* the entries is summary.totalDiff = targetTotal - baselineTotal, the
\* totals being the sums of baselineValue and targetValue over the entries.
C29_DiffConservation ==
    (op = "compare" /\ pc \in {"format", "done"}) =>
        /\ \A name \in DOMAIN baselineFuncs \cup DOMAIN targetFuncs :
             Cardinality({ i \in Entries : diffs[i].FunctionName = name }) = 1
        /\ \A i \in Entries :
             diffs[i].FunctionName \in DOMAIN baselineFuncs \cup DOMAIN targetFuncs
        /\ EntrySum("DiffValue") = summary.TotalDiff
        /\ summary.TotalDiff = summary.TargetTotal - summary.BaselineTotal
        /\ summary.BaselineTotal = EntrySum("BaselineValue")
        /\ summary.TargetTotal = EntrySum("TargetValue")

\* three entries, one grown and one shrunk, with a total difference
C29_Witness ==
    /\ op = "compare" /\ pc = "done" /\ IsReport
    /\ Len(diffs) = 3
    /\ \E i, j \in Entries : diffs[i].DiffValue > 0 /\ diffs[j].DiffValue < 0
    /\ summary.TotalDiff # 0

\* the sum over the trends of the value at time point i
TrendSumAt(i) == Total([t \in 1..Len(trends) |-> trends[t].Values[i]],
                       1..Len(trends))

\* C30: for every time point of AnalyzeHeapTimeSeries whose profile has a
\* single inuse_space column the values of all trends at that point add up
\* to the totalBytes of the point, samples without call stack included
\* under "unknown"; when this is so for the first and the last point, the
\* growthBytes of all trends add up to summary.totalGrowth.
C30_TrendsAddUpToSeries ==
    (op = "series" /\ pc = "done" /\ IsReport) =>
        /\ \A i \in 1..Len(profiles) :
             Cardinality(InuseSpaceColumns(profiles[i])) = 1 =>
                TrendSumAt(i) = series[i].TotalBytes
        /\ (/\ Cardinality(InuseSpaceColumns(profiles[1])) = 1
            /\ Cardinality(InuseSpaceColumns(profiles[Len(profiles)])) = 1) =>
             Total([t \in 1..Len(trends) |-> trends[t].GrowthBytes],
                   1..Len(trends)) = result.summary.TotalGrowth

\* the first profile has a sample without call stack, counted under
\* "unknown", next to a sample of another type, and there is a growth
C30_Witness ==
    /\ op = "series" /\ pc = "done" /\ IsReport
    /\ \E k \in 1..Len(profiles[1].Sample) :
         /\ Len(profiles[1].Sample[k].Location) = 0
         /\ Len(profiles[1].Sample[k].Value) = 2
    /\ \E t \in 1..Len(trends) :
         trends[t].TypeName = "unknown" /\ trends[t].Values[1] > 0
    /\ Len(trends) >= 2
    /\ series[1].TotalBytes = TrendSumAt(1)
    /\ result.summary.TotalGrowth # 0

\* ------------------------------------------------------ session claims
Disconnects == { c \in CallIds : calls[c].kind = "disconnect" /\ calls[c].pid \in Pids }

\* the signals a disconnect call has sent, in order
SignalsOf(c) ==
    LET ByCall(e) == e.by = "disconnect" /\ e.call = c
    IN  SelectSeq(signalled[calls[c].pid], ByCall)

\* the signals the signal cleanup has sent to a process, in order
CleanupSignals(p) ==
    LET ByCleanup(e) == e.by = "cleanup"
    IN  SelectSeq(signalled[p], ByCleanup)

\* Interrupt first, Kill only after an Interrupt that failed
InterruptThenKill(log) ==
    /\ Len(log) <= 2
    /\ Len(log) >= 1 => log[1].sig = "Interrupt"
    /\ Len(log) = 2 => log[2].sig = "Kill" /\ ~log[1].ok

\* C22: disconnect_pprof_session for a registered PID sends Interrupt
\* first and Kill only if sending Interrupt failed; it returns an error
\* only if both signals failed and success otherwise.
C22_InterruptBeforeKill ==
    \A c \in Disconnects :
        LET log == SignalsOf(c)
        IN  /\ InterruptThenKill(log)
            /\ calls[c].pc = "kill" => Len(log) = 1 /\ ~log[1].ok
            /\ (calls[c].pc = "returned" /\ Len(log) > 0) =>
                 /\ calls[c].ret \in {"ok", "failed to terminate"}
                 /\ (calls[c].ret = "failed to terminate") <=>
                        (Len(log) = 2 /\ ~log[1].ok /\ ~log[2].ok)
                 /\ (calls[c].ret = "ok") <=> log[Len(log)].ok
            /\ calls[c].ret \in {"ok", "failed to terminate"} => Len(log) > 0

\* a disconnect call that succeeded with Kill after a failed Interrupt
C22_Witness ==
    \E c \in Disconnects :
        /\ calls[c].ret = "ok"
        /\ Len(SignalsOf(c)) = 2
        /\ SignalsOf(c)[2].ok

\* the steps of a disconnect call up to and including a refusal
RefusalStep(c) ==
    /\ calls'[c] # calls[c]
    /\ calls'[c].kind = "disconnect"
    /\ \/ calls'[c].pc \in {"lock", "lookup"}
       \/ calls'[c].ret \in {"not found", "invalid PID"}

\* what holds of every disconnect call, whatever else is going on
DisconnectRegistry ==
    /\ [][\A c \in CallIds : RefusalStep(c) =>
             /\ runningPprofs' = runningPprofs
             /\ signalled' = signalled]_vars
    /\ [][\A c \in CallIds :
             (calls[c].pc = "lookup" /\ calls'[c] # calls[c]) =>
                ((calls'[c].ret = "not found") <=> (calls[c].pid \notin runningPprofs))]_vars
    /\ [][\A c \in CallIds :
             (/\ calls'[c].kind = "disconnect" /\ calls'[c].pid <= 0
              /\ calls'[c] # calls[c]) => calls'[c].ret = "invalid PID"]_vars
    /\ [](\A c \in Disconnects :
             /\ calls[c].ret \in {"not found", "invalid PID"} => SignalsOf(c) = << >>
             /\ calls[c].pc \in {"interrupt", "kill"} => calls[c].pid \notin runningPprofs
             /\ Len(SignalsOf(c)) > 0 => calls[c].pid \notin runningPprofs)
    /\ [][\A c \in CallIds :
             (/\ calls'[c].kind = "disconnect" /\ calls'[c].pid \in Pids
              /\ calls'[c].pc = "returned" /\ calls[c].pc # "returned") =>
                calls'[c].pid \notin runningPprofs']_vars

TookEntry(c) ==
    /\ calls[c].kind = "disconnect"
    /\ \/ calls[c].pc \in {"interrupt", "kill"}
       \/ calls[c].ret \in {"ok", "failed to terminate"}

C25_SignalCleanup ==
    /\ [][(handler.pc = "snapshot" /\ handler'.pc # "snapshot") =>
             /\ pprofMutex = "handler"
             /\ handler'.snapshot = runningPprofs
             /\ runningPprofs' = {}]_vars
    /\ [](handler.pc # "receive" => arrived > 0)
    /\ [](\A p \in Pids :
             /\ InterruptThenKill(CleanupSignals(p))
             /\ CleanupSignals(p) # << >> => p \in handler.snapshot)
    /\ [](handler.finished =>
             \A p \in handler.snapshot :
                 LET log == CleanupSignals(p)
                 IN  /\ Len(log) >= 1
                     /\ log[1].ok \/ Len(log) = 2
                     /\ worker[p] = "done")

\* the cleanup of two processes is finished, one of them after a Kill
C25_Witness ==
    /\ handler.finished
    /\ Cardinality(handler.snapshot) = 2
    /\ \E p \in handler.snapshot : Len(CleanupSignals(p)) = 2
    /\ \E p \in handler.snapshot : Len(CleanupSignals(p)) = 1

\* the disconnect calls that took the entry of p
Takers(p) == { c \in CallIds : TookEntry(c) /\ calls[c].pid = p }

\* C27: whatever the interleaving of disconnect calls and the signal
\* cleanup, the entry of a process is taken by one of them only: no process
\* is signalled by a disconnect call and by the cleanup, and of two
\* disconnect calls for one PID one signals and the other returns not-found.
C27_TakenOnce ==
    \A p \in Pids :
        /\ Cardinality(Takers(p)) + (IF p \in handler.snapshot THEN 1 ELSE 0) <= 1
        /\ (\E c \in CallIds : calls[c].kind = "open" /\ calls[c].pid = p
                                /\ calls[c].ret = "ok") =>
              (p \in runningPprofs) #
                  (Cardinality(Takers(p)) + (IF p \in handler.snapshot THEN 1 ELSE 0) = 1)
        /\ \A i, j \in 1..Len(signalled[p]) :
             /\ signalled[p][i].by = signalled[p][j].by
             /\ signalled[p][i].call = signalled[p][j].call
        /\ \A i \in 1..Len(signalled[p]) :
             IF signalled[p][i].by = "cleanup" THEN p \in handler.snapshot
             ELSE signalled[p][i].call \in Takers(p)
        /\ \A c, d \in Disconnects :
             (/\ c # d /\ calls[c].pid = p /\ calls[d].pid = p
              /\ TookEntry(c) /\ calls[d].pc = "returned") =>
                calls[d].ret = "not found"

\* two disconnect calls for one PID were in their critical sections one
\* after the other: one is about to signal, the other has returned
\* not-found, while the signal cleanup waits for the lock
C27_Witness ==
    /\ handler.pc = "lock"
    /\ \E c, d \in Disconnects :
         /\ calls[c].pid = calls[d].pid
         /\ calls[c].pc = "interrupt"
         /\ calls[d].ret = "not found"
         /\ d < c

\* no tool call and no cleanup is under way
Quiescent ==
    /\ \A c \in CallIds : calls[c].pc \in {"idle", "returned"}
    /\ handler.pc \in {"receive", "done"}

\* C23: the temporary file of a session opened from a remote URL is
\* removed once its pprof process has been terminated, by a disconnect
\* call or by the signal cleanup, and is there while the process runs.
C23_TempFileRemoved ==
    \A c \in CallIds :
        (/\ calls[c].kind = "open" /\ calls[c].pid \in Pids
         /\ Quiescent /\ process[calls[c].pid] = "exited") => ~tempFile[c]

\* C28: once the signal handling is over no process started by
\* open_interactive_pprof is left without a termination signal, whether
\* the signal came before or after the process was registered.
C28_NoProcessLeft ==
    (handler.pc = "done" /\ Quiescent) =>
        \A p \in Pids : process[p] # "unstarted" => signalled[p] # << >>

====
